---- MODULE Spec2Model ----
(***************************************************************************)
(* RumLisp (rumlisp-ts): the lexer, the reader with its macro registry, the *)
(* tree-walking evaluator, its environment chain, closures, reference-      *)
(* shared lists and dicts and the builtin table, as a state machine driven  *)
(* by interpret (one persistent environment) and execute (a fresh           *)
(* environment per source).                                                 *)
(*                                                                          *)
(* Numbers are modelled as integers.  An error message is modelled by its   *)
(* text without the " at line L, column C" suffix and the stack trace.      *)
(* Host builtins (files, processes, printing, the prelude) are left out.    *)
(***************************************************************************)
EXTENDS Integers, Sequences, FiniteSets, TLC

VARIABLES
  heap,        \* the objects alive in the process: envs, lists, dicts, closures
  lastSource,  \* the source text handed to the last interpret / execute call
  lastEnv,     \* the root environment that call evaluated in
  lastResult,  \* what that call returned (or threw)
  calls,       \* number of interpret / execute calls made so far
  macroReg,    \* the macros the reader has registered in the process
  lexInput,    \* the source a Lexer was constructed on
  lexState,    \* that Lexer: its SourcePosition and its ParenCounter
  lexCalls     \* its lookNext / next calls so far and the tokens they returned

\* the state of the interpreter, and the state of a Lexer used on its own
interpreter == <<heap, lastSource, lastEnv, lastResult, calls, macroReg>>
lexing == <<lexInput, lexState, lexCalls>>
vars == <<heap, lastSource, lastEnv, lastResult, calls, macroReg,
          lexInput, lexState, lexCalls>>

\* ---------------------------------------------------------------- bounds

\* interpret / execute calls in one behaviour
MaxCalls == 3
\* nested evaluate calls the host stack allows before it overflows
MaxDepth == 25
\* largest argument handed to fact
MaxN == 5
\* lookNext / next calls on one Lexer
MaxLexCalls == 10

\* ---------------------------------------------------------------- values

unit == [t |-> "Unit", n |-> 0, s |-> ""]
\* what a JavaScript lookup of an absent entry gives; never a RumLisp value
undefined == [t |-> "undefined", n |-> 0, s |-> ""]

Num(n) == [t |-> "Number", n |-> n, s |-> ""]
\* the number NaN, which is no integer
NaN == [t |-> "Number", n |-> 0, s |-> "NaN"]
isNaN(v) == v = NaN
Str(s) == [t |-> "String", n |-> 0, s |-> s]
\* a List, Dict or Closure value is the identity (address) of a heap object
ListAt(a) == [t |-> "List", n |-> a, s |-> ""]
DictAt(a) == [t |-> "Dict", n |-> a, s |-> ""]
ClosureAt(a) == [t |-> "Closure", n |-> a, s |-> ""]
\* a BuiltinClosure is identified by the name BUILTINS installs it under
BuiltinClosure(name) == [t |-> "BuiltinClosure", n |-> 0, s |-> name]

\* a boolean of the host, true or false; never meant to be a RumLisp value
jsBoolean(b) == [t |-> "boolean", n |-> 0, s |-> IF b THEN "true" ELSE "false"]

boolTrue == BuiltinClosure("#t")
boolFalse == BuiltinClosure("#f")

isBool(v) == v = boolTrue \/ v = boolFalse

showValueType(v) ==
  IF v.t = "Number" THEN "Number"
  ELSE IF v.t = "String" THEN "String"
  ELSE IF isBool(v) THEN "Boolean"
  ELSE IF v.t = "Unit" THEN "()"
  ELSE IF v.t = "List" THEN "List"
  ELSE IF v.t = "Dict" THEN "Dict"
  ELSE IF v.t = "Closure" THEN "Function"
  ELSE IF v.t = "BuiltinClosure" THEN "Function"
  ELSE "(unknown)"

\* ---------------------------------------------------------------- Either

\* Left: the ok alternative.  h is the heap the computation leaves behind.
Left(h, v) == [isLeft |-> TRUE, thrown |-> FALSE, value |-> v, msg |-> "", h |-> h]

\* Right: the fail alternative.  Its constructor throws an Error carrying the
\* message, so the failure leaves the evaluator as a host exception.
Right(h, m) == [isLeft |-> FALSE, thrown |-> TRUE, value |-> unit, msg |-> m, h |-> h]

\* ---------------------------------------------------------------- AST

NumberExpr(n) == [k |-> "number", n |-> n]
StringExpr(s) == [k |-> "string", s |-> s]
Var(id) == [k |-> "Var", id |-> id]
\* caller is the first item, args the rest; no items: the unit expression
SExpr(items) == [k |-> "SExpr", items |-> items]
ListExpr(items) == [k |-> "ListExpr", items |-> items]
DictEntry(key, value) == [key |-> key, value |-> value]
DictExpr(entries) == [k |-> "DictExpr", entries |-> entries]
ExprLetVar(id, expr) == [k |-> "ExprLetVar", id |-> id, expr |-> expr]
ExprLetFunc(id, params, body) ==
  [k |-> "ExprLetFunc", id |-> id, params |-> params, body |-> body]
ExprLambda(args, body) == [k |-> "ExprLambda", args |-> args, body |-> body]
ExprDo(exprs) == [k |-> "ExprDo", exprs |-> exprs]

\* ---------------------------------------------------------------- Env

EmptyHeap == [envs |-> <<>>, lists |-> <<>>, dicts |-> <<>>, closures |-> <<>>]

\* new Env(name, entryLocation, next); the new frame's address is Len(envs)
NewEnv(h, name, next) ==
  [h EXCEPT !.envs = Append(@, [name |-> name, context |-> <<>>, next |-> next])]

\* Env.pushed: a child frame pointing at env
pushed(h, env, name) == NewEnv(h, name, env)

topHas(h, env, id) == id \in DOMAIN h.envs[env].context

\* the mutant of EnvSet: an identifier the parent frame already binds is
\* rebound there
EnvSetRebindingOuter(h, env, id, value) ==
  LET next == h.envs[env].next
      target == IF next # 0 /\ id \in DOMAIN h.envs[next].context THEN next ELSE env
  IN [h EXCEPT !.envs[target].context = (id :> value) @@ @]

\* Env.set: both branches write the frame's own context
EnvSet(h, env, id, value) ==
  [h EXCEPT !.envs[env].context = (id :> value) @@ @]

RECURSIVE lookup(_, _, _)
\* Env.lookup: walk the chain from env outwards; 0 is the absent parent
lookup(h, env, id) ==
  IF env = 0 THEN undefined
  ELSE IF id \in DOMAIN h.envs[env].context THEN h.envs[env].context[id]
  ELSE lookup(h, h.envs[env].next, id)

\* ---------------------------------------------------------------- heap objects

\* new List(values): a fresh list object; its address is Len(lists)
NewList(h, values) == [h EXCEPT !.lists = Append(@, values)]

\* new Dict(map): a fresh dict object; data keeps the Map's insertion order
NewDict(h, data) == [h EXCEPT !.dicts = Append(@, data)]

\* the mutant of NewClosure: the closure keeps a copy of the frame it was
\* defined in instead of the frame itself
NewClosureCopyingEnv(h, id, env, params, body) ==
  LET hc == [h EXCEPT !.envs = Append(@, h.envs[env])]
  IN [hc EXCEPT !.closures =
        Append(@, [id |-> id, env |-> Len(hc.envs), params |-> params, body |-> body])]

\* new Closure(meta, env, params, body): env is held by reference
NewClosure(h, id, env, params, body) ==
  [h EXCEPT !.closures =
     Append(@, [id |-> id, env |-> env, params |-> params, body |-> body])]

\* Map.has / Map.get / Map.set on a Dict's data (keys compare with SameValueZero:
\* numbers and strings by value, objects by identity)
\* the mutant of SameValueZero: a number and a string that print alike are
\* one key
SameValueByText(a, b) ==
  \/ a = b
  \/ /\ {a.t, b.t} = {"Number", "String"}
     /\ (IF a.t = "Number" THEN ToString(a.n) ELSE a.s)
          = (IF b.t = "Number" THEN ToString(b.n) ELSE b.s)

\* the key comparison of Map: a number or a string by its value (NaN is one
\* key), an object by its identity
SameValueZero(a, b) == a = b

MapHas(data, key) == \E i \in 1..Len(data) : SameValueZero(data[i].key, key)

MapGet(data, key) ==
  IF MapHas(data, key)
  THEN data[CHOOSE i \in 1..Len(data) : SameValueZero(data[i].key, key)].value
  ELSE undefined

MapSet(data, key, value) ==
  IF MapHas(data, key)
  THEN [i \in 1..Len(data) |->
          IF SameValueZero(data[i].key, key)
            THEN [key |-> data[i].key, value |-> value] ELSE data[i]]
  ELSE Append(data, [key |-> key, value |-> value])

Min(a, b) == IF a < b THEN a ELSE b
Max(a, b) == IF a > b THEN a ELSE b

\* Array.prototype.splice(start, deleteCount, ...items): the array afterwards
splice(values, start, deleteCount, items) ==
  LET len == Len(values)
      actualStart == IF start < 0 THEN Max(len + start, 0) ELSE Min(start, len)
      actualDeleteCount == Min(Max(deleteCount, 0), len - actualStart)
  IN SubSeq(values, 1, actualStart) \o items
       \o SubSeq(values, actualStart + actualDeleteCount + 1, len)

\* ---------------------------------------------------------------- builtins

\* the parameter lists BUILTINS gives its closures (the host builtins, the
\* bitwise operators, show/repr/chars, slice, keys, entries, eval and
\* __stack__ are not modelled)
BuiltinParams ==
  [b \in {"add", "sub", "mul", "mod", "#t", "#f", "=", "!=", "lt", "gt", "le",
          "ge", "parse", "not", "and", "or", "empty?", "len", "get", "tryget",
          "set", "tryset", "push", "pop", "push-front", "pop-front", "del-ins",
          "type", "type-is"} |->
     CASE b \in {"parse", "empty?", "len"} -> <<"$0">>
       [] b \in {"not", "type"} -> <<"x">>
       [] b = "type-is" -> <<"x", "T">>
       [] b \in {"pop", "pop-front"} -> <<"list">>
       [] b \in {"push", "push-front"} -> <<"list", "val">>
       [] b \in {"and", "or"} -> <<"x", "y">>
       [] b = "get" -> <<"obj", "attr">>
       [] b \in {"set", "tryset"} -> <<"obj", "attr", "val">>
       [] b = "del-ins" -> <<"list", "start", "del-count", "new-items">>
       [] OTHER -> <<"$0", "$1">>]

BuiltinNames == DOMAIN BuiltinParams

\* the id a BuiltinClosure was constructed with ('tryget' was given 'add')
BuiltinId(name) == IF name = "tryget" THEN "add" ELSE name

\* builtins constructed with callExpr instead of call: they receive the
\* argument expressions unevaluated
CallExprBuiltins == {"and", "or"}

\* ---------------------------------------------------------------- printing

RECURSIVE trim(_)
\* String.prototype.trim for the strings List.toString builds: they begin with
\* "[", so only trailing blanks can go
trim(str) ==
  IF Len(str) > 0 /\ SubSeq(str, Len(str), Len(str)) = " "
    THEN trim(SubSeq(str, 1, Len(str) - 1))
    ELSE str

RECURSIVE join(_, _)
\* params.toString() with its commas replaced by the separator
join(strs, sep) ==
  IF strs = <<>> THEN ""
  ELSE IF Len(strs) = 1 THEN strs[1]
  ELSE strs[1] \o sep \o join(Tail(strs), sep)

\* str[0] and str.slice(n)
charAt(str, i) == SubSeq(str, i, i)
slice(str, n) == SubSeq(str, n + 1, Len(str))

isWhiteChar(c) == c \in {" ", "\t", "\r", "\n"}

RECURSIVE trimStart(_)
trimStart(str) ==
  IF Len(str) > 0 /\ isWhiteChar(charAt(str, 1)) THEN trimStart(slice(str, 1))
  ELSE str

\* the decimal digits and the value of each
Digits == "0123456789"
isDigit(c) == \E i \in 1..Len(Digits) : charAt(Digits, i) = c
digit(c) == (CHOOSE i \in 1..Len(Digits) : charAt(Digits, i) = c) - 1

RECURSIVE digitsValue(_, _)
\* the value of the digits a string begins with
digitsValue(ds, acc) ==
  IF ds = "" \/ ~isDigit(charAt(ds, 1)) THEN acc
  ELSE digitsValue(slice(ds, 1), 10 * acc + digit(charAt(ds, 1)))

\* parseFloat: the number a string begins with behind white characters, a
\* sign and digits (fractions and exponents are not modelled), or NaN
parseFloat(str) ==
  LET s == trimStart(str)
      ds == IF charAt(s, 1) \in {"-", "+"} THEN slice(s, 1) ELSE s
  IN CASE ds = "" \/ ~isDigit(charAt(ds, 1)) -> NaN
       [] charAt(s, 1) = "-" -> Num(-digitsValue(ds, 0))
       [] OTHER -> Num(digitsValue(ds, 0))

RECURSIVE toString(_, _)
RECURSIVE listItems(_, _)
RECURSIVE dictItems(_, _)

\* the loop of List.toString: every element followed by a blank
listItems(h, values) ==
  IF values = <<>> THEN ""
  ELSE toString(h, Head(values)) \o " " \o listItems(h, Tail(values))

\* the loop of Dict.toString: "key: value, " for every entry whose key is not a
\* string beginning with "__"; a string value is quoted
dictItems(h, data) ==
  IF data = <<>> THEN ""
  ELSE LET key == Head(data).key
           v == Head(data).value
           vs == IF v.t = "String" THEN "\"" \o v.s \o "\"" ELSE toString(h, v)
       IN IF key.t = "String" /\ Len(key.s) >= 2 /\ SubSeq(key.s, 1, 2) = "__"
            THEN dictItems(h, Tail(data))
            ELSE toString(h, key) \o ": " \o vs \o ", " \o dictItems(h, Tail(data))

\* `${value}`: the toString of each kind of value
toString(h, v) ==
  CASE v.t = "Unit" -> "()"
    [] v.t = "Number" -> IF isNaN(v) THEN "NaN" ELSE ToString(v.n)
    [] v.t = "String" -> v.s
    [] v.t = "List" -> trim("[" \o listItems(h, h.lists[v.n])) \o "]"
    [] v.t = "Dict" -> "Dict { " \o dictItems(h, h.dicts[v.n]) \o "}"
    [] v.t = "Closure" ->
         "Closure (" \o h.closures[v.n].id \o " "
           \o join(h.closures[v.n].params, " ") \o ") Expr {env}"
    [] v.t = "BuiltinClosure" -> BuiltinId(v.s)
    [] v.t = "boolean" -> v.s

\* the failure of get and set on an index outside the list or string shown
IndexError(h, attr, shown) ==
  Right(h, "index out of range: " \o ToString(attr.n) \o " of " \o shown)

\* the failure of get and set on a key the dict does not hold
KeyError(h, attr, obj) ==
  Right(h, "key error: key '" \o toString(h, attr) \o "' not existing on "
             \o toString(h, obj))

Unaccepted1(h, name, l) ==
  Right(h, "unaccepted arguments types (" \o showValueType(l) \o ") for '"
             \o name \o "'")

Unaccepted2(h, name, l, r) ==
  Right(h, "unaccepted arguments types (" \o showValueType(l) \o " "
             \o showValueType(r) \o ") for '" \o name \o "'")

\* an arithmetic result on two numbers: NaN as soon as an operand is NaN
arith(l, r, n) == IF isNaN(l) \/ isNaN(r) THEN NaN ELSE Num(n)

BuiltinAdd(h, args) ==
  LET l == args[1]
      r == args[2]
  IN IF l.t = "Number" /\ r.t = "Number" THEN Left(h, arith(l, r, l.n + r.n))
     ELSE IF l.t = "String" /\ r.t = "String" THEN Left(h, Str(l.s \o r.s))
     ELSE IF l.t = "List" /\ r.t = "List"
       THEN LET h2 == NewList(h, h.lists[l.n] \o h.lists[r.n])
            IN Left(h2, ListAt(Len(h2.lists)))
     ELSE Unaccepted2(h, "add", l, r)

BuiltinSub(h, args) ==
  LET l == args[1]
      r == args[2]
  IN IF l.t = "Number" /\ r.t = "Number" THEN Left(h, arith(l, r, l.n - r.n))
     ELSE Unaccepted2(h, "sub", l, r)

BuiltinMul(h, args) ==
  LET l == args[1]
      r == args[2]
  IN IF l.t = "Number" /\ r.t = "Number" THEN Left(h, arith(l, r, l.n * r.n))
     ELSE Unaccepted2(h, "mul", l, r)

\* l % r: the remainder has the sign of l, and is NaN when r is 0
rem(l, r) ==
  CASE isNaN(l) \/ isNaN(r) \/ r.n = 0 -> NaN
    [] l.n >= 0 -> Num(l.n % (IF r.n < 0 THEN -r.n ELSE r.n))
    [] OTHER -> Num(-((-l.n) % (IF r.n < 0 THEN -r.n ELSE r.n)))

BuiltinMod(h, args) ==
  LET l == args[1]
      r == args[2]
  IN IF l.t = "Number" /\ r.t = "Number" THEN Left(h, rem(l, r))
     ELSE Unaccepted2(h, "mod", l, r)

\* the mutant of BuiltinEq: two values of one type are taken for equal
BuiltinEqByType(h, args) ==
  Left(h, IF args[1].t = args[2].t THEN boolTrue ELSE boolFalse)

\* l === r: one and the same value, and NaN is not equal to itself
strictEq(l, r) == l = r /\ ~isNaN(l)

\* '=': l === r
BuiltinEq(h, args) ==
  Left(h, IF strictEq(args[1], args[2]) THEN boolTrue ELSE boolFalse)

\* '!=': l !== r
BuiltinNe(h, args) ==
  Left(h, IF ~strictEq(args[1], args[2]) THEN boolTrue ELSE boolFalse)

\* the printable characters in the order of their code units (the grave
\* accent, which no source text of the model holds, is left out)
CodeUnits ==
  " !\"#$%&'()*+,-./0123456789:;<=>?@ABCDEFGHIJKLMNOPQRSTUVWXYZ[\\]^_abcdefghijklmnopqrstuvwxyz{|}~"

codeUnit(c) == CHOOSE i \in 1..Len(CodeUnits) : SubSeq(CodeUnits, i, i) = c

RECURSIVE stringLess(_, _)
\* a < b on two strings: by the code units, a proper prefix being the smaller
stringLess(a, b) ==
  CASE b = "" -> FALSE
    [] a = "" -> TRUE
    [] SubSeq(a, 1, 1) = SubSeq(b, 1, 1) ->
         stringLess(SubSeq(a, 2, Len(a)), SubSeq(b, 2, Len(b)))
    [] OTHER -> codeUnit(SubSeq(a, 1, 1)) < codeUnit(SubSeq(b, 1, 1))

\* l < r on two numbers, two strings or two Lists: numbers by value, strings
\* by code units, and objects through the strings their toString gives
less(h, l, r) ==
  CASE l.t = "Number" -> ~isNaN(l) /\ ~isNaN(r) /\ l.n < r.n
    [] l.t = "String" -> stringLess(l.s, r.s)
    [] OTHER -> stringLess(toString(h, l), toString(h, r))

\* l <= r on two numbers, two strings or two Lists
lessEq(h, l, r) ==
  CASE l.t = "Number" -> ~isNaN(l) /\ ~isNaN(r) /\ l.n <= r.n
    [] l.t = "String" -> ~stringLess(r.s, l.s)
    [] OTHER -> ~stringLess(toString(h, r), toString(h, l))

\* the three accepted pairs of argument types of lt, gt, le and ge
Comparable(l, r) == l.t = r.t /\ l.t \in {"Number", "String", "List"}

BuiltinLt(h, args) ==
  LET l == args[1]
      r == args[2]
  IN IF Comparable(l, r)
       THEN Left(h, IF less(h, l, r) THEN boolTrue ELSE boolFalse)
     ELSE Unaccepted2(h, "lt", l, r)

BuiltinGt(h, args) ==
  LET l == args[1]
      r == args[2]
  IN IF Comparable(l, r)
       THEN Left(h, IF less(h, r, l) THEN boolTrue ELSE boolFalse)
     ELSE Unaccepted2(h, "gt", l, r)

BuiltinLe(h, args) ==
  LET l == args[1]
      r == args[2]
  IN IF Comparable(l, r)
       THEN Left(h, IF lessEq(h, l, r) THEN boolTrue ELSE boolFalse)
     ELSE Unaccepted2(h, "le", l, r)

BuiltinGe(h, args) ==
  LET l == args[1]
      r == args[2]
  IN IF Comparable(l, r)
       THEN Left(h, IF lessEq(h, r, l) THEN boolTrue ELSE boolFalse)
     ELSE Unaccepted2(h, "ge", l, r)

\* throw new Error(m) in a builtin: the call is left by a host exception
Throw(h, m) == [isLeft |-> FALSE, thrown |-> TRUE, value |-> unit, msg |-> m, h |-> h]

\* 'parse': the number a string reads as; on a string that reads as no number
\* it throws
BuiltinParse(h, args) ==
  LET l == args[1]
  IN CASE l.t # "String" -> Unaccepted1(h, "parse", l)
       [] isNaN(parseFloat(l.s)) -> Throw(h, "number NaN")
       [] OTHER -> Left(h, parseFloat(l.s))

BuiltinNot(h, args) ==
  LET x == args[1]
  IN IF x = boolFalse THEN Left(h, boolTrue)
     ELSE IF x = boolTrue THEN Left(h, boolFalse)
     ELSE Unaccepted1(h, "not", x)

BuiltinEmpty(h, args) ==
  LET l == args[1]
  IN IF l.t = "String" THEN Left(h, IF Len(l.s) = 0 THEN boolTrue ELSE boolFalse)
     ELSE IF l.t = "List"
       THEN Left(h, IF Len(h.lists[l.n]) = 0 THEN boolTrue ELSE boolFalse)
     ELSE IF l.t = "Dict"
       THEN Left(h, IF Len(h.dicts[l.n]) = 0 THEN boolTrue ELSE boolFalse)
     ELSE Unaccepted1(h, "empty?", l)

BuiltinLen(h, args) ==
  LET l == args[1]
  IN IF l.t = "String" THEN Left(h, Num(Len(l.s)))
     ELSE IF l.t = "List" THEN Left(h, Num(Len(h.lists[l.n])))
     ELSE Unaccepted1(h, "len", l)

BuiltinType(h, args) == Left(h, Str(showValueType(args[1])))

\* 'type-is': the comparison showValueType(x) === t itself, a boolean of the
\* host
BuiltinTypeIs(h, args) ==
  IF args[2].t = "String"
    THEN Left(h, jsBoolean(showValueType(args[1]) = args[2].s))
    ELSE Unaccepted1(h, "type-is", args[2])

\* 'get': the character, element or entry; an error when there is none
BuiltinGet(h, args) ==
  LET obj == args[1]
      attr == args[2]
  IN IF obj.t = "String" /\ attr.t = "Number"
       THEN IF attr.n < 0 \/ attr.n >= Len(obj.s)
              THEN IndexError(h, attr, "String \"" \o obj.s \o "\"")
              ELSE Left(h, Str(SubSeq(obj.s, attr.n + 1, attr.n + 1)))
     ELSE IF obj.t = "List" /\ attr.t = "Number"
       THEN IF attr.n < 0 \/ attr.n >= Len(h.lists[obj.n])
              THEN IndexError(h, attr, toString(h, obj))
              ELSE Left(h, h.lists[obj.n][attr.n + 1])
     ELSE IF obj.t = "Dict"
       THEN LET v == MapGet(h.dicts[obj.n], attr)
            IN IF v = undefined THEN KeyError(h, attr, obj) ELSE Left(h, v)
     ELSE Unaccepted2(h, "get", obj, attr)

\* 'tryget': as get, with unit where get fails on the index or key
BuiltinTryget(h, args) ==
  LET obj == args[1]
      attr == args[2]
  IN IF obj.t = "String" /\ attr.t = "Number"
       THEN IF attr.n < 0 \/ attr.n >= Len(obj.s)
              THEN Left(h, unit)
              ELSE Left(h, Str(SubSeq(obj.s, attr.n + 1, attr.n + 1)))
     ELSE IF obj.t = "List" /\ attr.t = "Number"
       THEN IF attr.n < 0 \/ attr.n >= Len(h.lists[obj.n])
              THEN Left(h, unit)
              ELSE Left(h, h.lists[obj.n][attr.n + 1])
     ELSE IF obj.t = "Dict"
       THEN LET v == MapGet(h.dicts[obj.n], attr)
            IN IF v = undefined THEN Left(h, unit) ELSE Left(h, v)
     ELSE Unaccepted2(h, "tryget", obj, attr)

\* the mutant of BuiltinSet: the range check admits index len (off by one),
\* so the write lands past the end
BuiltinSetOffByOne(h, args) ==
  LET obj == args[1]
      attr == args[2]
      val == args[3]
  IN IF obj.t = "List" /\ attr.t = "Number"
       THEN IF attr.n < 0 \/ attr.n > Len(h.lists[obj.n])
              THEN IndexError(h, attr, toString(h, obj))
              ELSE Left([h EXCEPT !.lists[obj.n] =
                           IF attr.n = Len(@) THEN Append(@, val)
                           ELSE [@ EXCEPT ![attr.n + 1] = val]], obj)
     ELSE IF obj.t = "Dict"
       THEN IF ~MapHas(h.dicts[obj.n], attr)
              THEN KeyError(h, attr, obj)
              ELSE Left([h EXCEPT !.dicts[obj.n] = MapSet(@, attr, val)], obj)
     ELSE Unaccepted2(h, "set", obj, attr)

\* 'set': overwrite an existing element or entry in place; the same object back
BuiltinSet(h, args) ==
  LET obj == args[1]
      attr == args[2]
      val == args[3]
  IN IF obj.t = "List" /\ attr.t = "Number"
       THEN IF attr.n < 0 \/ attr.n >= Len(h.lists[obj.n])
              THEN IndexError(h, attr, toString(h, obj))
              ELSE Left([h EXCEPT !.lists[obj.n][attr.n + 1] = val], obj)
     ELSE IF obj.t = "Dict"
       THEN IF ~MapHas(h.dicts[obj.n], attr)
              THEN KeyError(h, attr, obj)
              ELSE Left([h EXCEPT !.dicts[obj.n] = MapSet(@, attr, val)], obj)
     ELSE Unaccepted2(h, "set", obj, attr)

\* 'tryset': as set, with unit where set fails on the index or key
BuiltinTryset(h, args) ==
  LET obj == args[1]
      attr == args[2]
      val == args[3]
  IN IF obj.t = "List" /\ attr.t = "Number"
       THEN IF attr.n < 0 \/ attr.n >= Len(h.lists[obj.n])
              THEN Left(h, unit)
              ELSE Left([h EXCEPT !.lists[obj.n][attr.n + 1] = val], obj)
     ELSE IF obj.t = "Dict"
       THEN IF ~MapHas(h.dicts[obj.n], attr)
              THEN Left(h, unit)
              ELSE Left([h EXCEPT !.dicts[obj.n] = MapSet(@, attr, val)], obj)
     ELSE Unaccepted2(h, "tryset", obj, attr)

\* the mutant of BuiltinPush: the element is appended to a copy of the list,
\* and the copy is returned
BuiltinPushCopy(h, args) ==
  LET list == args[1]
      val == args[2]
  IN IF list.t = "List"
       THEN LET h2 == NewList(h, Append(h.lists[list.n], val))
            IN Left(h2, ListAt(Len(h2.lists)))
     ELSE Unaccepted2(h, "push", list, val)

\* 'push': list.values.push(val); the same list back
BuiltinPush(h, args) ==
  LET list == args[1]
      val == args[2]
  IN IF list.t = "List"
       THEN Left([h EXCEPT !.lists[list.n] = Append(@, val)], list)
     ELSE Unaccepted2(h, "push", list, val)

\* 'pop': list.values.pop(), the removed last element
BuiltinPop(h, args) ==
  LET list == args[1]
  IN IF list.t = "List"
       THEN IF Len(h.lists[list.n]) <= 0
              THEN Right(h, "popping from empty list")
              ELSE Left([h EXCEPT !.lists[list.n] = SubSeq(@, 1, Len(@) - 1)],
                        h.lists[list.n][Len(h.lists[list.n])])
     ELSE Unaccepted1(h, "pop", list)

\* 'push-front': list.values.unshift(val); the same list back
BuiltinPushFront(h, args) ==
  LET list == args[1]
      val == args[2]
  IN IF list.t = "List"
       THEN Left([h EXCEPT !.lists[list.n] = <<val>> \o @], list)
     ELSE Unaccepted2(h, "push-front", list, val)

\* 'pop-front': the source calls list.values.pop() here too
BuiltinPopFront(h, args) ==
  LET list == args[1]
  IN IF list.t = "List"
       THEN IF Len(h.lists[list.n]) <= 0
              THEN Right(h, "popping from empty list")
              ELSE Left([h EXCEPT !.lists[list.n] = SubSeq(@, 1, Len(@) - 1)],
                        h.lists[list.n][Len(h.lists[list.n])])
     ELSE Unaccepted1(h, "pop-front", list)

\* 'del-ins': list.values.splice(st, dc, ...ni.values); the same list back
BuiltinDelIns(h, args) ==
  LET list == args[1]
      st == args[2]
      dc == args[3]
      ni == args[4]
  IN IF list.t = "List" /\ st.t = "Number" /\ dc.t = "Number" /\ ni.t = "List"
       THEN Left([h EXCEPT !.lists[list.n] = splice(@, st.n, dc.n, h.lists[ni.n])],
                 list)
     ELSE Right(h, "unaccepted arguments types (" \o showValueType(list) \o " "
                     \o showValueType(st) \o " " \o showValueType(dc) \o " "
                     \o showValueType(ni) \o ") for 'del-ins'")

\* BuiltinClosure._call: the function the builtin was constructed with
BuiltinCall(h, name, args) ==
  CASE name = "add" -> BuiltinAdd(h, args)
    [] name = "sub" -> BuiltinSub(h, args)
    [] name = "mul" -> BuiltinMul(h, args)
    [] name = "mod" -> BuiltinMod(h, args)
    [] name = "#t" -> Left(h, args[1])
    [] name = "#f" -> Left(h, args[2])
    [] name = "=" -> BuiltinEq(h, args)
    [] name = "!=" -> BuiltinNe(h, args)
    [] name = "lt" -> BuiltinLt(h, args)
    [] name = "gt" -> BuiltinGt(h, args)
    [] name = "le" -> BuiltinLe(h, args)
    [] name = "ge" -> BuiltinGe(h, args)
    [] name = "parse" -> BuiltinParse(h, args)
    [] name = "not" -> BuiltinNot(h, args)
    [] name = "empty?" -> BuiltinEmpty(h, args)
    [] name = "len" -> BuiltinLen(h, args)
    [] name = "type" -> BuiltinType(h, args)
    [] name = "type-is" -> BuiltinTypeIs(h, args)
    [] name = "get" -> BuiltinGet(h, args)
    [] name = "tryget" -> BuiltinTryget(h, args)
    [] name = "set" -> BuiltinSet(h, args)
    [] name = "tryset" -> BuiltinTryset(h, args)
    [] name = "push" -> BuiltinPush(h, args)
    [] name = "pop" -> BuiltinPop(h, args)
    [] name = "push-front" -> BuiltinPushFront(h, args)
    [] name = "pop-front" -> BuiltinPopFront(h, args)
    [] name = "del-ins" -> BuiltinDelIns(h, args)

\* ---------------------------------------------------------------- evaluator
\* The arms of a CASE below are tried in the order written, as the source's
\* if / else-if chains are: an arm is reached only when those before it failed.

\* the host's RangeError when evaluate nests deeper than its stack allows
StackOverflow(h) ==
  [isLeft |-> FALSE, thrown |-> TRUE, value |-> unit,
   msg |-> "RangeError: Maximum call stack size exceeded", h |-> h]

RECURSIVE bindParamsUnpushed(_, _, _, _, _)
\* the mutant of bindParams: the parameters are set in the captured frame
\* itself, with no frame pushed
bindParamsUnpushed(h, env, id, params, vals) ==
  IF vals = <<>> THEN [h |-> h, env |-> env]
  ELSE bindParamsUnpushed(EnvSet(h, env, Head(params), Head(vals)), env, id,
                          Tail(params), Tail(vals))

RECURSIVE bindParams(_, _, _, _, _)
\* the binding loop of Closure.call: for every evaluated argument push a frame
\* and set the parameter in it; with no arguments env stays the captured one
bindParams(h, env, id, params, vals) ==
  IF vals = <<>> THEN [h |-> h, env |-> env]
  ELSE LET h1 == pushed(h, env, id)
           e1 == Len(h1.envs)
       IN bindParams(EnvSet(h1, e1, Head(params), Head(vals)), e1, id,
                     Tail(params), Tail(vals))

\* the arity failure of Closure.call (where == " defined") and of
\* BuiltinClosure.call (where == "")
ArityError(h, id, where, expected, got) ==
  Right(h, "number of arguments: function '" \o id \o "'" \o where \o ": expected "
             \o ToString(expected) \o ", got " \o ToString(got))

RECURSIVE evaluate(_, _, _, _)
RECURSIVE evaluateAll(_, _, _, _)
RECURSIVE evaluateEntries(_, _, _, _, _)
RECURSIVE evaluateDo(_, _, _, _, _)
RECURSIVE ClosureCall(_, _, _, _, _)
RECURSIVE BuiltinClosureCall(_, _, _, _, _)
RECURSIVE BuiltinAnd(_, _, _, _)
RECURSIVE BuiltinOr(_, _, _, _)

\* the loop "for (i in args) { val = evaluate(argEnv, args[i]); ... }" of
\* Closure.call, BuiltinClosure.call and ListExpr: the values left to right, or
\* the first failure.  v1..v4 are the loop's first four rounds; a longer
\* sequence continues with its tail.
evaluateAll(h, env, exprs, d) ==
  LET n == Len(exprs)
      v1 == evaluate(h, env, exprs[1], d)
      v2 == evaluate(v1.h, env, exprs[2], d)
      v3 == evaluate(v2.h, env, exprs[3], d)
      v4 == evaluate(v3.h, env, exprs[4], d)
      rest == evaluateAll(v4.h, env, SubSeq(exprs, 5, n), d)
      Ok(vals, hh) == [ok |-> TRUE, vals |-> vals, h |-> hh, err |-> Left(hh, unit)]
      Failed(val) == [ok |-> FALSE, vals |-> <<>>, h |-> val.h, err |-> val]
  IN CASE n = 0 -> Ok(<<>>, h)
       [] ~v1.isLeft -> Failed(v1)
       [] n = 1 -> Ok(<<v1.value>>, v1.h)
       [] ~v2.isLeft -> Failed(v2)
       [] n = 2 -> Ok(<<v1.value, v2.value>>, v2.h)
       [] ~v3.isLeft -> Failed(v3)
       [] n = 3 -> Ok(<<v1.value, v2.value, v3.value>>, v3.h)
       [] ~v4.isLeft -> Failed(v4)
       [] n = 4 -> Ok(<<v1.value, v2.value, v3.value, v4.value>>, v4.h)
       [] ~rest.ok -> rest
       [] OTHER -> [rest EXCEPT !.vals = <<v1.value, v2.value, v3.value, v4.value>> \o @]

\* the mutant of ClosureCall: the arguments are evaluated before the arity
\* check
ClosureCallArityLate(h, c, argEnv, args, d) ==
  LET clo == h.closures[c]
      vals == evaluateAll(h, argEnv, args, d + 1)
      b == bindParams(vals.h, clo.env, clo.id, clo.params, vals.vals)
  IN CASE ~vals.ok -> vals.err
       [] Len(args) # Len(clo.params) ->
            ArityError(vals.h, clo.id, " defined", Len(clo.params), Len(args))
       [] OTHER -> evaluate(b.h, b.env, clo.body, d + 1)

\* Closure.call
ClosureCall(h, c, argEnv, args, d) ==
  LET clo == h.closures[c]
      vals == evaluateAll(h, argEnv, args, d + 1)
      b == bindParams(vals.h, clo.env, clo.id, clo.params, vals.vals)
  IN CASE Len(args) # Len(clo.params) ->
            ArityError(h, clo.id, " defined", Len(clo.params), Len(args))
       [] ~vals.ok -> vals.err
       [] OTHER -> evaluate(b.h, b.env, clo.body, d + 1)

\* 'and' (callExpr).  x and y are the Either results, and it is these, not
\* the values inside them, that the source hands to isBool and compares with
\* boolFalse; showValueType of an Either is '(unknown)'
BuiltinAnd(h, argEnv, args, d) ==
  LET x == evaluate(h, argEnv, args[1], d + 1)
      y == evaluate(x.h, argEnv, args[2], d + 1)
  IN CASE ~x.isLeft -> x
       [] ~isBool(x) ->
            Right(x.h, "unaccepted arguments types ((unknown) <unknown>) for 'and'")
       [] x = boolFalse -> Left(x.h, boolFalse)
       [] ~y.isLeft -> y
       [] ~isBool(y) ->
            Right(y.h, "unaccepted arguments types ((unknown) (unknown)) for 'and'")
       [] x = boolFalse -> Left(y.h, boolFalse)
       [] OTHER -> Left(y.h, boolTrue)

\* 'or' (callExpr), with the same use of the Either results
BuiltinOr(h, argEnv, args, d) ==
  LET x == evaluate(h, argEnv, args[1], d + 1)
      y == evaluate(x.h, argEnv, args[2], d + 1)
  IN CASE ~x.isLeft -> x
       [] ~isBool(x) ->
            Right(x.h, "unaccepted arguments types ((unknown) <unknown>) for 'or'")
       [] x = boolTrue -> Left(x.h, boolTrue)
       [] ~y.isLeft -> y
       [] ~isBool(y) ->
            Right(y.h, "unaccepted arguments types ((unknown) (unknown)) for 'or'")
       [] x = boolFalse -> Left(y.h, boolFalse)
       [] OTHER -> Left(y.h, boolTrue)

\* the mutant of BuiltinClosureCall: #t and #f are called like every other
\* builtin, on the evaluated arguments
BuiltinClosureCallEager(h, name, argEnv, args, d) ==
  LET vals == evaluateAll(h, argEnv, args, d + 1)
  IN CASE Len(args) # Len(BuiltinParams[name]) ->
            ArityError(h, BuiltinId(name), "", Len(BuiltinParams[name]), Len(args))
       [] name = "and" -> BuiltinAnd(h, argEnv, args, d)
       [] name = "or" -> BuiltinOr(h, argEnv, args, d)
       [] ~vals.ok -> vals.err
       [] OTHER -> BuiltinCall(vals.h, name, vals.vals)

\* BuiltinClosure.call
BuiltinClosureCall(h, name, argEnv, args, d) ==
  LET vals == evaluateAll(h, argEnv, args, d + 1)
  IN CASE Len(args) # Len(BuiltinParams[name]) ->
            ArityError(h, BuiltinId(name), "", Len(BuiltinParams[name]), Len(args))
       [] name = "#t" -> evaluate(h, argEnv, args[1], d + 1)
       [] name = "#f" -> evaluate(h, argEnv, args[2], d + 1)
       [] name = "and" -> BuiltinAnd(h, argEnv, args, d)
       [] name = "or" -> BuiltinOr(h, argEnv, args, d)
       [] ~vals.ok -> vals.err
       [] OTHER -> BuiltinCall(vals.h, name, vals.vals)

\* the mutant of evaluateEntries: the failure of a key leaves the loop only
\* after the value of the entry is evaluated
evaluateEntriesBoth(h, env, entries, map, d) ==
  LET entry == Head(entries)
      keyVal == evaluate(h, env, entry.key, d)
      valVal == evaluate(keyVal.h, env, entry.value, d)
      Failed(val, hh) ==
        [ok |-> FALSE, map |-> map, h |-> hh, err |-> [val EXCEPT !.h = hh]]
  IN CASE entries = <<>> ->
            [ok |-> TRUE, map |-> map, h |-> h, err |-> Left(h, unit)]
       [] ~keyVal.isLeft -> Failed(keyVal, valVal.h)
       [] ~valVal.isLeft -> Failed(valVal, valVal.h)
       [] OTHER ->
            evaluateEntries(valVal.h, env, Tail(entries),
                            MapSet(map, keyVal.value, valVal.value), d)

\* the DictExpr loop: the key, then the value, then the check of both; a
\* thrown failure of the key leaves before the value is evaluated
evaluateEntries(h, env, entries, map, d) ==
  LET entry == Head(entries)
      keyVal == evaluate(h, env, entry.key, d)
      valVal == evaluate(keyVal.h, env, entry.value, d)
      Failed(val, hh) == [ok |-> FALSE, map |-> map, h |-> hh, err |-> val]
  IN CASE entries = <<>> ->
            [ok |-> TRUE, map |-> map, h |-> h, err |-> Left(h, unit)]
       [] keyVal.thrown -> Failed(keyVal, keyVal.h)
       [] valVal.thrown -> Failed(valVal, valVal.h)
       [] keyVal.isLeft /\ valVal.isLeft ->
            evaluateEntries(valVal.h, env, Tail(entries),
                            MapSet(map, keyVal.value, valVal.value), d)
       [] ~keyVal.isLeft -> Failed(keyVal, valVal.h)
       [] OTHER -> Failed(valVal, valVal.h)

\* the ExprDo loop: the last value, or the first failure
evaluateDo(h, env, exprs, v, d) ==
  LET v1 == evaluate(h, env, Head(exprs), d)
  IN CASE exprs = <<>> -> [v EXCEPT !.h = h]
       [] ~v1.isLeft -> v1
       [] OTHER -> evaluateDo(v1.h, env, Tail(exprs), v1, d)

\* evaluate(env, expr) on an SExpr with a caller
evaluateSExpr(h, env, expr, d) ==
  LET callerVal == evaluate(h, env, Head(expr.items), d + 1)
      clos == callerVal.value
  IN CASE ~callerVal.isLeft -> callerVal
       [] clos.t = "Closure" ->
            ClosureCall(callerVal.h, clos.n, env, Tail(expr.items), d)
       [] clos.t = "BuiltinClosure" ->
            BuiltinClosureCall(callerVal.h, clos.s, env, Tail(expr.items), d)
       [] OTHER ->
            Right(callerVal.h,
                  "not callable: result of the first item of this s-expression is not a closure; result was "
                    \o toString(callerVal.h, clos))

\* evaluate(env, expr) on the other aggregate and binding forms
evaluateForm(h, env, expr, d) ==
  LET vals == evaluateAll(h, env, expr.items, d + 1)
      hl == NewList(vals.h, vals.vals)
      m == evaluateEntries(h, env, expr.entries, <<>>, d + 1)
      hd == NewDict(m.h, m.map)
      bodyVal == evaluate(h, env, expr.expr, d + 1)
      hf == NewClosure(h, expr.id, env, expr.params, expr.body)
      clos == ClosureAt(Len(hf.closures))
      hc == NewClosure(h, "(lambda)", env, expr.args, expr.body)
      v == Right(h, "never here")
  IN CASE expr.k = "ListExpr" /\ ~vals.ok -> vals.err
       [] expr.k = "ListExpr" -> Left(hl, ListAt(Len(hl.lists)))
       [] expr.k = "DictExpr" /\ ~m.ok -> m.err
       [] expr.k = "DictExpr" -> Left(hd, DictAt(Len(hd.dicts)))
       [] expr.k = "ExprLetVar" /\ bodyVal.thrown -> bodyVal
       [] expr.k = "ExprLetVar" /\ bodyVal.isLeft ->
            Left(EnvSet(bodyVal.h, env, expr.id, bodyVal.value), bodyVal.value)
       [] expr.k = "ExprLetVar" -> Right(bodyVal.h, bodyVal.msg)
       [] expr.k = "ExprLetFunc" -> Left(EnvSet(hf, env, expr.id, clos), clos)
       [] expr.k = "ExprLambda" -> Left(hc, ClosureAt(Len(hc.closures)))
       [] expr.k = "ExprDo" /\ v.thrown -> v
       [] expr.k = "ExprDo" -> evaluateDo(h, env, expr.exprs, v, d + 1)
       [] expr.k = "Macro" -> Left(h, unit)
       [] OTHER -> Throw(h, "never here")

\* evaluate(env, expr); d counts the evaluate calls on the host stack
evaluate(h, env, expr, d) ==
  CASE d > MaxDepth -> StackOverflow(h)
    [] expr.k = "number" -> Left(h, Num(expr.n))
    [] expr.k = "string" -> Left(h, Str(expr.s))
    [] expr.k = "Var" /\ lookup(h, env, expr.id) = undefined ->
         Right(h, "undefined variable '" \o expr.id \o "'")
    [] expr.k = "Var" -> Left(h, lookup(h, env, expr.id))
    [] expr.k = "SExpr" /\ expr.items = <<>> -> Left(h, unit)
    [] expr.k = "SExpr" -> evaluateSExpr(h, env, expr, d)
    [] OTHER -> evaluateForm(h, env, expr, d)

\* ---------------------------------------------------------------- source texts

\* the source texts of the families below
FactCall(k) == "(fact " \o ToString(k) \o ")"
GetXs(i) == "(get xs " \o ToString(i) \o ")"
TrygetXs(i) == "(tryget xs " \o ToString(i) \o ")"
SetXs(i) == "(set xs " \o ToString(i) \o " 9)"
TrysetXs(i) == "(tryset xs " \o ToString(i) \o " 9)"
GetD(i) == "(get d " \o ToString(i) \o ")"
TrygetD(i) == "(tryget d " \o ToString(i) \o ")"
SetD(i) == "(set d " \o ToString(i) \o " \"z\")"
TrysetD(i) == "(tryset d " \o ToString(i) \o " \"z\")"
CmpCall(op, a, b) == "(" \o op \o " " \o a \o " " \o b \o ")"
ModCall(a, b) == "(mod " \o ToString(a) \o " " \o ToString(b) \o ")"

\* the arguments and indices the families range over
FactArgs == -1..MaxN
Indices == -1..2
Keys == {1, 3}
Dividends == {-7, 0, 7}
Comparisons == {"lt", "gt", "le", "ge"}
Divisors == {-2, 0, 2}

\* ---------------------------------------------------------------- lexer

\* a local of the source: its initializer, evaluated once, under its name
Bind(value, Rest(_)) == Rest(value)

\* new Lexer(source): a SourcePosition on the trimmed source at line 1,
\* column 1, and a ParenCounter at zero
Lexer(source) ==
  [source |-> trim(trimStart(source)), line |-> 1, column |-> 1,
   paren |-> 0, brack |-> 0, curly |-> 0, hadErr |-> FALSE]

\* a token; line and column are 0 where the code leaves them undefined
Token(type, literal, line, column) ==
  [type |-> type, literal |-> literal, line |-> line, column |-> column]
eofToken == Token("eof", "", 0, 0)

\* SourcePosition.advance1 on a source that is not at its end
advance1(lexer) ==
  IF charAt(lexer.source, 1) = "\n"
    THEN [lexer EXCEPT !.source = slice(@, 1), !.line = @ + 1, !.column = 1]
    ELSE [lexer EXCEPT !.source = slice(@, 1), !.column = @ + 1]

RECURSIVE advance(_, _)
\* SourcePosition.advance: step characters, fewer at the end of the source
advance(lexer, step) ==
  IF step = 0 \/ lexer.source = "" THEN lexer
  ELSE advance(advance1(lexer), step - 1)

RECURSIVE skipComment(_)
\* the inner loop of skipWhites: to the end of the line, the line break
\* included
skipComment(lexer) ==
  CASE lexer.source = "" -> lexer
    [] charAt(lexer.source, 1) = "\n" -> advance1(lexer)
    [] OTHER -> skipComment(advance1(lexer))

RECURSIVE skipWhites(_)
\* Lexer.skipWhites: the lexer behind white characters and comments (at the
\* end of its source where skipWhites returns false)
skipWhites(lexer) ==
  CASE lexer.source = "" -> lexer
    [] isWhiteChar(charAt(lexer.source, 1)) -> skipWhites(advance1(lexer))
    [] charAt(lexer.source, 1) = ";" -> skipWhites(skipComment(lexer))
    [] OTHER -> lexer

\* the characters the first lex rule excludes (the grave accent, which no
\* source text of the model holds, is left out)
Delimiters == {" ", "\t", "\r", "\n", "(", ")", "[", "]", "{", "}", ";", "%", "\""}

RECURSIVE wordLength(_, _)
\* the length of the match of /^[^ \t\r\n()\[\]{};`%"]+/
wordLength(src, n) ==
  IF n < Len(src) /\ charAt(src, n + 1) \notin Delimiters
    THEN wordLength(src, n + 1) ELSE n

\* /^-?\d+(\.\d+)?$/ on the literals of the model, which hold no fraction
isNumberLiteral(literal) ==
  Bind(IF charAt(literal, 1) = "-" THEN slice(literal, 1) ELSE literal,
       LAMBDA ds :
  ds # "" /\ \A i \in 1..Len(ds) : isDigit(charAt(ds, i)))

\* the mutant of stringLength: the greedy match /^".*"/s, up to the last quote
stringLengthGreedy(src, n) ==
  IF \E i \in (n + 1)..Len(src) : charAt(src, i) = "\""
    THEN CHOOSE i \in (n + 1)..Len(src) :
           /\ charAt(src, i) = "\""
           /\ \A j \in (i + 1)..Len(src) : charAt(src, j) # "\""
    ELSE 0

RECURSIVE stringLength(_, _)
\* the length of the match of /^".*?"/s behind the opening quote at n, 0 when
\* no quote closes the string
stringLength(src, n) ==
  CASE n >= Len(src) -> 0
    [] charAt(src, n + 1) = "\"" -> n + 1
    [] OTHER -> stringLength(src, n + 1)

\* Lexer.matchFirst without the advance: the token of the first rule that
\* matches the source, which begins with a character that is not white
matchFirst(lexer) ==
  Bind(lexer.source, LAMBDA src :
  Bind(charAt(src, 1), LAMBDA c :
  Bind(SubSeq(src, 1, wordLength(src, 0)), LAMBDA word :
  Bind(CASE c \notin Delimiters /\ isNumberLiteral(word) -> <<"number", word>>
         [] c \notin Delimiters -> <<"identifier", word>>
         [] c = "\"" /\ stringLength(src, 1) > 0 ->
              <<"string", SubSeq(src, 1, stringLength(src, 1))>>
         [] OTHER -> <<"symbol", c>>,
       LAMBDA rule :
  Token(rule[1], rule[2], lexer.line, lexer.column)))))

\* the mutant of lookNext: the token it shows is consumed
lookNextAdvancing(lexer) ==
  Bind(skipWhites(lexer), LAMBDA lx :
  [token |-> IF lx.source = "" THEN eofToken ELSE matchFirst(lx),
   lexer |-> IF lx.source = "" THEN lx
             ELSE advance(lx, Len(matchFirst(lx).literal))])

\* Lexer.lookNext: the next token, and the lexer as the call leaves it: behind
\* the white characters and comments skipWhites has advanced over
lookNext(lexer) ==
  Bind(skipWhites(lexer), LAMBDA lx :
  [token |-> IF lx.source = "" THEN eofToken ELSE matchFirst(lx), lexer |-> lx])

\* the mutant of counted: a closing square bracket counts down the round
\* parentheses
countedAsParen(lexer, literal) ==
  CASE literal = "(" -> [lexer EXCEPT !.paren = @ + 1]
    [] literal \in {")", "]"} ->
         [lexer EXCEPT !.paren = @ - 1, !.hadErr = @ \/ lexer.paren - 1 < 0]
    [] literal = "[" -> [lexer EXCEPT !.brack = @ + 1]
    [] literal = "{" -> [lexer EXCEPT !.curly = @ + 1]
    [] literal = "}" ->
         [lexer EXCEPT !.curly = @ - 1, !.hadErr = @ \/ lexer.paren < 0]
    [] OTHER -> lexer

\* ParenCounter: decParen, decBrack and decCurly all test the count of round
\* parentheses for the error flag
counted(lexer, literal) ==
  CASE literal = "(" -> [lexer EXCEPT !.paren = @ + 1]
    [] literal = ")" ->
         [lexer EXCEPT !.paren = @ - 1, !.hadErr = @ \/ lexer.paren - 1 < 0]
    [] literal = "[" -> [lexer EXCEPT !.brack = @ + 1]
    [] literal = "]" ->
         [lexer EXCEPT !.brack = @ - 1, !.hadErr = @ \/ lexer.paren < 0]
    [] literal = "{" -> [lexer EXCEPT !.curly = @ + 1]
    [] literal = "}" ->
         [lexer EXCEPT !.curly = @ - 1, !.hadErr = @ \/ lexer.paren < 0]
    [] OTHER -> lexer

\* Lexer.next: the next token and the lexer behind it
next(lexer) ==
  Bind(skipWhites(lexer), LAMBDA lx :
  Bind(matchFirst(lx), LAMBDA token :
  Bind(advance(lx, Len(token.literal)), LAMBDA advanced :
  Bind(IF token.type = "symbol" THEN counted(advanced, token.literal)
         ELSE advanced,
       LAMBDA cnt :
  CASE lx.source = "" -> [token |-> eofToken, lexer |-> lx]
    [] token.type = "symbol" /\ token.literal \in {")", "]", "}"} /\ cnt.hadErr ->
         [token |-> Token("err", "unmatched parentheses", cnt.line, cnt.column),
          lexer |-> cnt]
    [] OTHER -> [token |-> token, lexer |-> cnt]))))

\* ---------------------------------------------------------------- reader

\* reserved identifiers: the keys the KEYWORD object is written with
KEYWORD == {"let", "\\", "do", "macro"}

\* a reader function returns its expression, the lexer behind it and the
\* macro registry, or throws: EOF, SyntaxError, or an exception of the host
ok(expr, lexer, reg) ==
  [ok |-> TRUE, kind |-> "", msg |-> "", expr |-> expr, lexer |-> lexer, reg |-> reg]
throw(kind, msg, reg) ==
  [ok |-> FALSE, kind |-> kind, msg |-> msg, expr |-> unit, lexer |-> Lexer(""),
   reg |-> reg]
EOF(reg) == throw("EOF", "", reg)
SyntaxError(msg, reg) == throw("SyntaxError", msg, reg)

\* KEYWORD is a plain object, so KEYWORD[literal] also finds what the object
\* inherits from Object.prototype: these members, and toLocaleString and the
\* accessor helpers of Annex B, which no source text below names
ObjectPrototype ==
  {"constructor", "toString", "valueOf", "hasOwnProperty", "isPrototypeOf",
   "propertyIsEnumerable", "__proto__"}

\* KEYWORD[literal] !== undefined
isKeyword(literal) == literal \in KEYWORD \cup ObjectPrototype

\* the Lexer object, where it stands for an Expr
LexerObject == [k |-> "Lexer"]

\* handler(lexer) for an inherited member, called with no receiver in strict
\* module code: Object(lexer) is the lexer itself, Object.prototype.toString
\* gives the tag of undefined, __proto__ is no function, and the other
\* members throw a TypeError on the missing receiver
inheritedHandler(handler, lexer, reg) ==
  CASE handler = "constructor" -> ok(LexerObject, lexer, reg)
    [] handler = "toString" -> ok(StringExpr("[object Undefined]"), lexer, reg)
    [] handler = "__proto__" -> throw("TypeError", "handler is not a function", reg)
    [] OTHER -> throw("TypeError", "Cannot convert undefined or null to object", reg)

UNEXP_EOF == "syntax error: unexpected EOF"

\* UncheckedToken.check throws on the eof token and on an err token (whose
\* message is the toString of the UncheckedToken object)
unchecked(token) == token.type \in {"eof", "err"}
check(token, reg) ==
  SyntaxError(IF token.type = "eof" THEN "unexpected EOF" ELSE "[object Object]", reg)

isSymbol(token, literal) == token.type = "symbol" /\ token.literal = literal

\* macroReg: the registered macros in the order of their registration
macroRegHas(reg, name) == \E i \in 1..Len(reg) : reg[i].name = name
macroRegGet(reg, name) == reg[CHOOSE i \in 1..Len(reg) : reg[i].name = name]

\* new Macro(name, args, body): pattern is a MacroPattern with an empty graph
Macro(name, args, body) ==
  [k |-> "Macro", name |-> name, args |-> args, body |-> body, graph |-> <<>>]

\* the mutant of register: a macro of a registered name replaces it
registerReplacing(reg, macro) ==
  [registered |-> TRUE,
   reg |-> IF macroRegHas(reg, macro.name)
             THEN [i \in 1..Len(reg) |->
                     IF reg[i].name = macro.name THEN macro ELSE reg[i]]
             ELSE Append(reg, macro)]

\* Macro.register: false, and the registry as it was, when the name is taken
register(reg, macro) ==
  IF macroRegHas(reg, macro.name) THEN [registered |-> FALSE, reg |-> reg]
  ELSE [registered |-> TRUE, reg |-> Append(reg, macro)]

\* a macro argument; name is <<>> for undefined and <<n>> for the name n
MacroArgStruct(name, struct) ==
  [k |-> "MacroArgStruct", name |-> name, struct |-> struct]
MacroArgSection(name, subs) == [k |-> "MacroArgSection", name |-> name, subs |-> subs]
MacroArgSelector(name, subs) == [k |-> "MacroArgSelector", name |-> name, subs |-> subs]
MacroArgParen(type, subs) == [k |-> "MacroArgParen", type |-> type, subs |-> subs]
MacroArgRepeat(name, selector, arg) ==
  [k |-> "MacroArgRepeat", name |-> name, selector |-> selector, arg |-> arg]
MacroVar(name) == [k |-> "MacroVar", name |-> name, intoList |-> FALSE]
MacroParenExpr(type, exprs) == [k |-> "MacroParenExpr", type |-> type, exprs |-> exprs]

closedParen(opPr) == IF opPr = "(" THEN ")" ELSE IF opPr = "[" THEN "]" ELSE "}"

RECURSIVE parseMacroArg(_, _, _)
RECURSIVE parseMacroArgs(_, _, _, _)
RECURSIVE parseMacroChoices(_, _, _, _)

\* the loops of parseMacro and parseMacroArg that fill a list of their own up
\* to the closing symbol, which they skip
parseMacroArgs(lexer, reg, closer, args) ==
  Bind(lookNext(lexer), LAMBDA look :
  Bind(look.token, LAMBDA token :
  Bind(parseMacroArg(look.lexer, reg, args), LAMBDA r :
  CASE unchecked(token) -> check(token, reg)
    [] isSymbol(token, closer) -> ok(args, next(look.lexer).lexer, reg)
    [] ~r.ok -> r
    [] OTHER -> parseMacroArgs(r.lexer, reg, closer, Append(r.args, r.expr)))))

\* the loop of a selector %name[...]: each choice is parsed against the list
\* args of the enclosing arguments
parseMacroChoices(lexer, reg, args, choices) ==
  Bind(lookNext(lexer), LAMBDA look :
  Bind(look.token, LAMBDA token :
  Bind(parseMacroArg(look.lexer, reg, args), LAMBDA r :
  CASE unchecked(token) -> check(token, reg)
    [] isSymbol(token, "]") ->
         ok(choices, next(look.lexer).lexer, reg) @@ [args |-> args]
    [] ~r.ok -> r
    [] OTHER -> parseMacroChoices(r.lexer, reg, r.args, Append(choices, r.expr)))))

\* parseMacroArg(lexer, args): the argument, and args, whose last argument a
\* repeater strips of its name
parseMacroArg(lexer, reg, args) ==
  Bind(next(lexer), LAMBDA n1 :
  Bind(n1.token, LAMBDA t1 :
  \* behind '%'
  Bind(next(n1.lexer), LAMBDA n2 :
  Bind(n2.token, LAMBDA t2 :
  Bind(t2.type = "identifier" /\ t2.literal \in {"?", "*", "+"},
       LAMBDA isRepeat :
  Bind(args[Len(args)], LAMBDA lastArg :
  Bind(lastArg.k \in {"MacroArgStruct", "MacroArgSection", "MacroArgSelector"}
         /\ lastArg.name # <<>>,
       LAMBDA named :
  Bind(IF named THEN [lastArg EXCEPT !.name = <<>>] ELSE lastArg,
       LAMBDA stripped :
  Bind(MacroArgRepeat(IF named THEN lastArg.name ELSE <<>>, t2.literal, stripped),
       LAMBDA mar :
  \* behind '%name'
  Bind(IF t2.type = "identifier" THEN t2.literal ELSE "", LAMBDA name :
  Bind(IF t2.type = "identifier" THEN next(n2.lexer) ELSE n2, LAMBDA n3 :
  Bind(n3.token, LAMBDA t3 :
  Bind(parseMacroArgs(n3.lexer, reg, ")", <<>>), LAMBDA section :
  Bind(parseMacroChoices(n3.lexer, reg, args, <<>>), LAMBDA choices :
  Bind(next(n3.lexer), LAMBDA n4 :
  Bind(n4.token, LAMBDA t4 :
  Bind(next(n4.lexer), LAMBDA n5 :
  Bind(n5.token, LAMBDA t5 :
  \* behind '(' '[' or '{'
  Bind(parseMacroArgs(n1.lexer, reg, closedParen(t1.literal), <<>>),
       LAMBDA subs :
  LET with(r, a) == [r EXCEPT !.expr = a] @@ [args |-> args]
  IN
  CASE lexer.source = "" -> SyntaxError(UNEXP_EOF, reg)
    [] unchecked(t1) -> check(t1, reg)
    [] t1.type = "number" ->
         ok(NumberExpr(parseFloat(t1.literal).n), n1.lexer, reg) @@ [args |-> args]
    [] t1.type = "string" ->
         ok(StringExpr(SubSeq(t1.literal, 2, Len(t1.literal) - 1)), n1.lexer, reg)
           @@ [args |-> args]
    [] t1.type = "identifier" -> ok(Var(t1.literal), n1.lexer, reg) @@ [args |-> args]
    [] isSymbol(t1, "%") /\ unchecked(t2) -> check(t2, reg)
    [] isSymbol(t1, "%") /\ isRepeat /\ args = <<>> ->
         SyntaxError("expected a macro argument before this selector", reg)
    [] isSymbol(t1, "%") /\ isRepeat /\ lastArg.k = "MacroArgRepeat" ->
         SyntaxError("cannot repeat a macro segment repeater", reg)
    [] isSymbol(t1, "%") /\ isRepeat ->
         ok(mar, n2.lexer, reg)
           @@ [args |-> [args EXCEPT ![Len(args)] = stripped]]
    [] isSymbol(t1, "%") /\ unchecked(t3) -> check(t3, reg)
    [] isSymbol(t1, "%") /\ isSymbol(t3, "(") /\ ~section.ok -> section
    [] isSymbol(t1, "%") /\ isSymbol(t3, "(") ->
         with(section, MacroArgSection(<<name>>, section.expr))
    [] isSymbol(t1, "%") /\ isSymbol(t3, "[") /\ ~choices.ok -> choices
    [] isSymbol(t1, "%") /\ isSymbol(t3, "[") ->
         [choices EXCEPT !.expr = MacroArgSelector(<<name>>, choices.expr)]
    [] isSymbol(t1, "%") /\ isSymbol(t3, "{") /\ unchecked(t4) -> check(t4, reg)
    [] isSymbol(t1, "%") /\ isSymbol(t3, "{")
         /\ ~(t4.type = "identifier"
              /\ t4.literal \in {"expr", "token", "number", "string", "ident"}) ->
         SyntaxError("expected \"expr\" \"token\" \"number\" \"string\" or \"ident\"", reg)
    [] isSymbol(t1, "%") /\ isSymbol(t3, "{") /\ unchecked(t5) -> check(t5, reg)
    [] isSymbol(t1, "%") /\ isSymbol(t3, "{") /\ ~isSymbol(t5, "}") ->
         SyntaxError("expected '}'", reg)
    [] isSymbol(t1, "%") /\ isSymbol(t3, "{") ->
         ok(MacroArgStruct(<<name>>, t4.literal), n5.lexer, reg) @@ [args |-> args]
    [] isSymbol(t1, "%") -> SyntaxError("expected '(' '[' or '{'", reg)
    [] t1.literal \in {"(", "[", "{"} /\ ~subs.ok -> subs
    [] t1.literal \in {"(", "[", "{"} ->
         with(subs, MacroArgParen(t1.literal, subs.expr))
    [] OTHER -> SyntaxError("unexpected '" \o t1.literal \o "'", reg))))))))))))))))))))

RECURSIVE parseMacroExpr(_, _)
RECURSIVE parseMacroExprs(_, _, _, _)

\* the loop of parseMacroExpr behind '(' '[' or '{'
parseMacroExprs(lexer, reg, closer, exprs) ==
  Bind(lookNext(lexer), LAMBDA look :
  Bind(look.token, LAMBDA token :
  Bind(parseMacroExpr(look.lexer, reg), LAMBDA r :
  CASE unchecked(token) -> check(token, reg)
    [] isSymbol(token, closer) -> ok(exprs, next(look.lexer).lexer, reg)
    [] ~r.ok -> r
    [] OTHER -> parseMacroExprs(r.lexer, reg, closer, Append(exprs, r.expr)))))

parseMacroExpr(lexer, reg) ==
  Bind(next(lexer), LAMBDA n1 :
  Bind(n1.token, LAMBDA t1 :
  Bind(next(n1.lexer), LAMBDA n2 :
  Bind(n2.token, LAMBDA t2 :
  Bind(next(n2.lexer), LAMBDA n3 :
  Bind(n3.token, LAMBDA t3 :
  Bind(parseMacroExprs(n1.lexer, reg, closedParen(t1.literal), <<>>),
       LAMBDA exprs :
  CASE lexer.source = "" -> SyntaxError(UNEXP_EOF, reg)
    [] unchecked(t1) -> check(t1, reg)
    [] t1.type = "number" -> ok(NumberExpr(parseFloat(t1.literal).n), n1.lexer, reg)
    [] t1.type = "string" ->
         ok(StringExpr(SubSeq(t1.literal, 2, Len(t1.literal) - 1)), n1.lexer, reg)
    [] t1.type = "identifier" -> ok(Var(t1.literal), n1.lexer, reg)
    [] isSymbol(t1, "%") /\ unchecked(t2) -> check(t2, reg)
    [] isSymbol(t1, "%") /\ t2.type = "identifier" ->
         ok(MacroVar(t2.literal), n2.lexer, reg)
    [] isSymbol(t1, "%") /\ isSymbol(t2, "%") /\ unchecked(t3) -> check(t3, reg)
    [] isSymbol(t1, "%") /\ isSymbol(t2, "%") /\ t3.type # "identifier" ->
         SyntaxError("syntax error: expected IDENTIFIER", reg)
    [] isSymbol(t1, "%") /\ isSymbol(t2, "%") -> ok(MacroVar(t3.literal), n3.lexer, reg)
    [] isSymbol(t1, "%") -> SyntaxError("expected '%' or IDENTIFIER", reg)
    [] t1.literal \in {"(", "[", "{"} /\ ~exprs.ok -> exprs
    [] t1.literal \in {"(", "[", "{"} ->
         [exprs EXCEPT !.expr = MacroParenExpr(t1.literal, exprs.expr)]
    [] OTHER -> SyntaxError("unexpected '" \o t1.literal \o "'", reg))))))))

\* parseMacro: '(' name arguments ')' body.  The macro is registered as soon
\* as its body is read; the ')' that closes the macro form is left unread.
parseMacro(lexer, reg) ==
  Bind(next(lexer), LAMBDA n1 :
  Bind(next(n1.lexer), LAMBDA n2 :
  Bind(n2.token.literal, LAMBDA name :
  Bind(lookNext(n2.lexer), LAMBDA look :
  Bind(look.token, LAMBDA t3 :
  Bind(parseMacroArgs(look.lexer, reg, ")", <<>>), LAMBDA args :
  Bind(parseMacroExpr(args.lexer, reg), LAMBDA body :
  Bind(Macro(name, args.expr, body.expr), LAMBDA macro :
  Bind(register(reg, macro), LAMBDA done :
  CASE lexer.source = "" -> SyntaxError(UNEXP_EOF, reg)
    [] unchecked(n1.token) -> check(n1.token, reg)
    [] ~isSymbol(n1.token, "(") -> SyntaxError("expected '('", reg)
    [] unchecked(n2.token) -> check(n2.token, reg)
    [] n2.token.type # "identifier" ->
         SyntaxError("syntax error: expected IDENTIFIER", reg)
    [] unchecked(t3) -> check(t3, reg)
    [] isSymbol(t3, ")") -> SyntaxError("expected macro argument list", reg)
    [] ~args.ok -> args
    [] ~body.ok -> body
    [] ~done.registered -> SyntaxError("redefined macro '" \o name \o "'", reg)
    [] OTHER -> ok(macro, body.lexer, done.reg))))))))))

\* StatePointer.run on a pointer to the vertex `to`: with an item to read it
\* reads this.to.outs, which throws a TypeError on the undefined vertex
StatePointerRun(to, items, reg) ==
  CASE items # <<>> /\ to = undefined ->
         throw("TypeError", "Cannot read property 'outs' of undefined", reg)

\* MacroPattern.run: the end symbol is appended to the items and a pointer to
\* graph[0] is run; the constructor has left graph empty
MacroPatternRun(macro, items, reg) ==
  StatePointerRun(IF macro.graph = <<>> THEN undefined ELSE macro.graph[1],
                  Append(items, Var("%#")), reg)

\* expandMacro: MacroPattern.run, then replaceMacroExpr, a function that is
\* defined nowhere
expandMacro(macro, items, reg) ==
  Bind(MacroPatternRun(macro, items, reg), LAMBDA run :
  IF ~run.ok THEN run
  ELSE throw("ReferenceError", "replaceMacroExpr is not defined", reg))

RECURSIVE parseExpr(_, _)
RECURSIVE parseExprs(_, _, _, _)
RECURSIVE parseDictEntries(_, _, _)

\* the loop of parseSExpr, parseListExpr and parseDo: expressions up to the
\* closing symbol, which is cast off
parseExprs(lexer, reg, closer, items) ==
  Bind(lookNext(lexer), LAMBDA look :
  Bind(look.token, LAMBDA token :
  Bind(parseExpr(look.lexer, reg), LAMBDA r :
  CASE unchecked(token) -> check(token, reg)
    [] isSymbol(token, closer) -> ok(items, next(look.lexer).lexer, reg)
    [] ~r.ok -> r
    [] OTHER -> parseExprs(r.lexer, r.reg, closer, Append(items, r.expr)))))

parseLetVar(lexer, reg, id) ==
  Bind(parseExpr(lexer, reg), LAMBDA r :
  Bind(next(r.lexer), LAMBDA n :
  CASE lexer.source = "" -> SyntaxError(UNEXP_EOF, reg)
    [] ~r.ok -> r
    [] unchecked(n.token) -> check(n.token, r.reg)
    [] ~isSymbol(n.token, ")") -> SyntaxError("expected ')'", r.reg)
    [] OTHER -> ok(ExprLetVar(id, r.expr), n.lexer, r.reg)))

RECURSIVE parseLetFuncParams(_, _, _)
\* the parameter loop of parseLetFunc: identifiers up to ')', none of them a
\* keyword
parseLetFuncParams(lexer, reg, params) ==
  Bind(next(lexer), LAMBDA n :
  Bind(n.token, LAMBDA token :
  CASE lexer.source = "" -> SyntaxError(UNEXP_EOF, reg)
    [] unchecked(token) -> check(token, reg)
    [] isSymbol(token, ")") -> ok(params, n.lexer, reg)
    [] token.type = "identifier" /\ isKeyword(token.literal) ->
         SyntaxError("unexpected keyword " \o token.literal, reg)
    [] token.type = "identifier" ->
         parseLetFuncParams(n.lexer, reg, Append(params, token.literal))
    [] OTHER -> SyntaxError("expected IDENTIFIER", reg)))

parseLetFunc(lexer, reg) ==
  Bind(next(lexer), LAMBDA n :
  Bind(n.token, LAMBDA token :
  Bind(parseLetFuncParams(n.lexer, reg, <<>>), LAMBDA params :
  Bind(parseExpr(params.lexer, reg), LAMBDA body :
  Bind(next(body.lexer), LAMBDA last :
  CASE lexer.source = "" -> SyntaxError(UNEXP_EOF, reg)
    [] unchecked(token) -> check(token, reg)
    [] token.type # "identifier" -> SyntaxError("expected IDENTIFIER", reg)
    [] isKeyword(token.literal) ->
         SyntaxError("unexpected keyword " \o token.literal, reg)
    [] ~params.ok -> params
    [] ~body.ok -> body
    [] unchecked(last.token) -> check(last.token, body.reg)
    [] ~isSymbol(last.token, ")") -> SyntaxError("expected ')'", body.reg)
    [] OTHER -> ok(ExprLetFunc(token.literal, params.expr, body.expr),
                   last.lexer, body.reg))))))

parseLet(lexer, reg) ==
  Bind(next(lexer), LAMBDA n :
  Bind(n.token, LAMBDA token :
  CASE lexer.source = "" -> SyntaxError(UNEXP_EOF, reg)
    [] unchecked(token) -> check(token, reg)
    [] token.type = "identifier" /\ isKeyword(token.literal) ->
         SyntaxError("unexpected keyword " \o token.literal, reg)
    [] token.type = "identifier" -> parseLetVar(n.lexer, reg, token.literal)
    [] isSymbol(token, "(") -> parseLetFunc(n.lexer, reg)
    [] OTHER -> SyntaxError("expected IDENTIFIER or '('", reg)))

RECURSIVE parseLambdaArgs(_, _, _)
\* the parameter loop of parseLambda: identifiers up to ')'
parseLambdaArgs(lexer, reg, args) ==
  Bind(next(lexer), LAMBDA n :
  Bind(n.token, LAMBDA token :
  CASE lexer.source = "" -> SyntaxError(UNEXP_EOF, reg)
    [] unchecked(token) -> check(token, reg)
    [] isSymbol(token, ")") -> ok(args, n.lexer, reg)
    [] token.type = "identifier" ->
         parseLambdaArgs(n.lexer, reg, Append(args, token.literal))
    [] OTHER -> SyntaxError("expected IDENTIFIER", reg)))

parseLambda(lexer, reg) ==
  Bind(next(lexer), LAMBDA n :
  Bind(n.token, LAMBDA token :
  Bind(parseLambdaArgs(n.lexer, reg, <<>>), LAMBDA args :
  Bind(parseExpr(args.lexer, reg), LAMBDA body :
  Bind(next(body.lexer), LAMBDA last :
  CASE lexer.source = "" -> SyntaxError(UNEXP_EOF, reg)
    [] unchecked(token) -> check(token, reg)
    [] ~isSymbol(token, "(") -> SyntaxError("expected '('", reg)
    [] ~args.ok -> args
    [] ~body.ok -> body
    [] unchecked(last.token) -> check(last.token, body.reg)
    [] ~isSymbol(last.token, ")") -> SyntaxError("expected ')'", body.reg)
    [] OTHER -> ok(ExprLambda(args.expr, body.expr), last.lexer, body.reg))))))

parseDo(lexer, reg) ==
  Bind(parseExprs(lexer, reg, ")", <<>>), LAMBDA exprs :
  CASE lexer.source = "" -> SyntaxError(UNEXP_EOF, reg)
    [] ~exprs.ok -> exprs
    [] OTHER -> [exprs EXCEPT !.expr = ExprDo(exprs.expr)])

parseSExpr(lexer, reg) ==
  Bind(lookNext(lexer), LAMBDA look :
  Bind(look.token, LAMBDA token :
  Bind(token.literal, LAMBDA handler :
  Bind(next(look.lexer).lexer, LAMBDA behind :
  Bind(parseExprs(look.lexer, reg, ")", <<>>), LAMBDA items :
  CASE lexer.source = "" -> SyntaxError(UNEXP_EOF, reg)
    [] unchecked(token) -> check(token, reg)
    [] handler = "let" -> parseLet(behind, reg)
    [] handler = "\\" -> parseLambda(behind, reg)
    [] handler = "do" -> parseDo(behind, reg)
    [] handler = "macro" -> parseMacro(behind, reg)
    [] handler \in ObjectPrototype -> inheritedHandler(handler, behind, reg)
    [] ~items.ok -> items
    [] macroRegHas(reg, token.literal) ->
         expandMacro(macroRegGet(reg, token.literal), items.expr, items.reg)
    [] OTHER -> [items EXCEPT !.expr = SExpr(items.expr)])))))

parseListExpr(lexer, reg) ==
  Bind(parseExprs(lexer, reg, "]", <<>>), LAMBDA items :
  CASE lexer.source = "" -> SyntaxError(UNEXP_EOF, reg)
    [] ~items.ok -> items
    [] OTHER -> [items EXCEPT !.expr = ListExpr(items.expr)])

parseDictEntry(lexer, reg) ==
  Bind(parseExpr(lexer, reg), LAMBDA key :
  Bind(parseExpr(key.lexer, key.reg), LAMBDA value :
  Bind(next(value.lexer), LAMBDA n :
  CASE lexer.source = "" -> SyntaxError(UNEXP_EOF, reg)
    [] ~key.ok -> key
    [] ~value.ok -> value
    [] unchecked(n.token) -> check(n.token, value.reg)
    [] ~isSymbol(n.token, ")") -> SyntaxError("expected ')'", value.reg)
    [] OTHER -> ok(DictEntry(key.expr, value.expr), n.lexer, value.reg))))

\* the loop of parseDictExpr: entries (key value) up to '}', which is cast off
parseDictEntries(lexer, reg, entries) ==
  Bind(lookNext(lexer), LAMBDA look :
  Bind(look.token, LAMBDA token_ :
  Bind(next(look.lexer), LAMBDA n :
  Bind(parseDictEntry(n.lexer, reg), LAMBDA entry :
  CASE unchecked(token_) -> check(token_, reg)
    [] isSymbol(token_, "}") -> ok(entries, n.lexer, reg)
    [] unchecked(n.token) -> check(n.token, reg)
    [] ~isSymbol(n.token, "(") -> SyntaxError("expected '('", reg)
    [] ~entry.ok -> entry
    [] OTHER -> parseDictEntries(entry.lexer, entry.reg, Append(entries, entry.expr))))))

parseDictExpr(lexer, reg) ==
  Bind(parseDictEntries(lexer, reg, <<>>), LAMBDA entries :
  CASE lexer.source = "" -> SyntaxError(UNEXP_EOF, reg)
    [] ~entries.ok -> entries
    [] OTHER -> [entries EXCEPT !.expr = DictExpr(entries.expr)])

parseExpr(lexer, reg) ==
  Bind(next(lexer), LAMBDA n :
  Bind(n.token, LAMBDA token :
  CASE lexer.source = "" -> EOF(reg)
    [] unchecked(token) -> check(token, reg)
    [] token.type = "number" -> ok(NumberExpr(parseFloat(token.literal).n), n.lexer, reg)
    [] token.type = "string" ->
         ok(StringExpr(SubSeq(token.literal, 2, Len(token.literal) - 1)), n.lexer, reg)
    [] isSymbol(token, "(") -> parseSExpr(n.lexer, reg)
    [] isSymbol(token, "[") -> parseListExpr(n.lexer, reg)
    [] isSymbol(token, "{") -> parseDictExpr(n.lexer, reg)
    [] token.type = "symbol" -> SyntaxError("unexpected '" \o token.literal \o "'", reg)
    [] isKeyword(token.literal) ->
         SyntaxError("unexpected keyword " \o token.literal, reg)
    [] OTHER -> ok(Var(token.literal), n.lexer, reg)))

RECURSIVE parseLoop(_, _, _)
\* the loop of Parser.parse: EOF ends it, a SyntaxError becomes a Right (whose
\* constructor throws), any other exception is thrown on
parseLoop(lexer, reg, result) ==
  Bind(parseExpr(lexer, reg), LAMBDA res :
  CASE res.ok -> parseLoop(res.lexer, res.reg, Append(result, res.expr))
    [] res.kind = "EOF" ->
         [isLeft |-> TRUE, thrown |-> FALSE, exprs |-> result, msg |-> "",
          reg |-> res.reg]
    [] res.kind = "SyntaxError" ->
         [isLeft |-> FALSE, thrown |-> TRUE, exprs |-> <<>>,
          msg |-> "syntax error: " \o res.msg, reg |-> res.reg]
    [] OTHER ->
         [isLeft |-> FALSE, thrown |-> TRUE, exprs |-> <<>>,
          msg |-> res.kind \o ": " \o res.msg, reg |-> res.reg])

\* Parser.parse on a source read with the macro registry reg
parse(reg, source) ==
  IF Lexer(source).source = ""
    THEN [isLeft |-> FALSE, thrown |-> TRUE, exprs |-> <<>>, msg |-> "eof", reg |-> reg]
    ELSE parseLoop(Lexer(source), reg, <<>>)

\* the text of a source given as its top-level forms
SourceText(source) == join(source, " ")

\* the expression a text of one form reads as while no macro is registered
exprOf(text) == parse(<<>>, text).exprs[1]

\* ---------------------------------------------------------------- drivers

\* makeInitialEnv: a '__main__' frame holding every builtin; RISP_LIB is not
\* set, so loadPrelude returns without reading a prelude
makeInitialEnv(h) ==
  LET h1 == NewEnv(h, "__main__", 0)
  IN [h1 EXCEPT !.envs[Len(h1.envs)].context =
        [id \in BuiltinNames |-> BuiltinClosure(id)]]

\* the objects alive once the module is loaded: INITIAL_ENV and interpretEnv
LoadedHeap == makeInitialEnv(makeInitialEnv(EmptyHeap))
INITIAL_ENV == 1
interpretEnv == 2

RECURSIVE evaluateExprs(_, _, _, _)
RECURSIVE evaluateExprsCopying(_, _, _, _)
\* the mutant of evaluateExprs: a list result is collected as a copy taken
\* when its expression has been evaluated
evaluateExprsCopying(h, env, exprs, vals) ==
  IF exprs = <<>>
    THEN [isLeft |-> TRUE, thrown |-> FALSE, vals |-> vals, msg |-> "", h |-> h]
  ELSE LET val == evaluate(h, env, Head(exprs), 1)
           hc == NewList(val.h, val.h.lists[val.value.n])
       IN IF val.isLeft /\ val.value.t = "List"
            THEN evaluateExprsCopying(hc, env, Tail(exprs),
                                      Append(vals, ListAt(Len(hc.lists))))
          ELSE IF val.isLeft
            THEN evaluateExprsCopying(val.h, env, Tail(exprs), Append(vals, val.value))
            ELSE [isLeft |-> FALSE, thrown |-> val.thrown, vals |-> <<>>,
                  msg |-> val.msg, h |-> val.h]

\* the loop of execute and interpret: the values of the top-level expressions,
\* or the first failure
evaluateExprs(h, env, exprs, vals) ==
  IF exprs = <<>>
    THEN [isLeft |-> TRUE, thrown |-> FALSE, vals |-> vals, msg |-> "", h |-> h]
  ELSE LET val == evaluate(h, env, Head(exprs), 1)
       IN IF val.isLeft
            THEN evaluateExprs(val.h, env, Tail(exprs), Append(vals, val.value))
            ELSE [isLeft |-> FALSE, thrown |-> val.thrown, vals |-> <<>>,
                  msg |-> val.msg, h |-> val.h]

Returned(r) ==
  [isLeft |-> r.isLeft, thrown |-> r.thrown, vals |-> r.vals, msg |-> r.msg]

\* what execute and interpret give when Parser.parse has failed
Unparsed(h, ast) ==
  [isLeft |-> FALSE, thrown |-> ast.thrown, vals |-> <<>>, msg |-> ast.msg, h |-> h]

\* interpret(source): read the source, evaluate in the persistent interpretEnv
interpret(source) ==
  /\ calls < MaxCalls
  /\ LET ast == parse(macroReg, SourceText(source))
         r == IF ast.isLeft THEN evaluateExprs(heap, interpretEnv, ast.exprs, <<>>)
              ELSE Unparsed(heap, ast)
     IN /\ heap' = r.h
        /\ lastResult' = Returned(r)
        /\ macroReg' = ast.reg
  /\ lastSource' = source
  /\ lastEnv' = interpretEnv
  /\ calls' = calls + 1
  /\ UNCHANGED lexing

\* execute(filepath, source): evaluate in a fresh initial environment
execute(source) ==
  /\ calls < MaxCalls
  /\ LET ast == parse(macroReg, SourceText(source))
         h1 == makeInitialEnv(heap)
         r == IF ast.isLeft THEN evaluateExprs(h1, Len(h1.envs), ast.exprs, <<>>)
              ELSE Unparsed(heap, ast)
     IN /\ heap' = r.h
        /\ lastResult' = Returned(r)
        /\ lastEnv' = IF ast.isLeft THEN Len(h1.envs) ELSE lastEnv
        /\ macroReg' = ast.reg
  /\ lastSource' = source
  /\ calls' = calls + 1
  /\ UNCHANGED lexing

\* new Lexer(source)
newLexer(source) ==
  /\ lexCalls = <<>>
  /\ lexInput' = source
  /\ lexState' = Lexer(source)
  /\ lexCalls' = <<>>
  /\ UNCHANGED interpreter

\* a call of lexer.lookNext()
callLookNext ==
  /\ Len(lexCalls) < MaxLexCalls
  /\ lexState' = lookNext(lexState).lexer
  /\ lexCalls' = Append(lexCalls, [call |-> "lookNext",
                                    token |-> lookNext(lexState).token])
  /\ UNCHANGED <<lexInput, interpreter>>

\* a call of lexer.next()
callNext ==
  /\ Len(lexCalls) < MaxLexCalls
  /\ lexState' = next(lexState).lexer
  /\ lexCalls' = Append(lexCalls, [call |-> "next", token |-> next(lexState).token])
  /\ UNCHANGED <<lexInput, interpreter>>

Init ==
  /\ heap = LoadedHeap
  /\ lastSource = <<>>
  /\ lastEnv = interpretEnv
  /\ lastResult = [isLeft |-> TRUE, thrown |-> FALSE, vals |-> <<>>, msg |-> ""]
  /\ calls = 0
  /\ macroReg = <<>>
  /\ lexInput = ""
  /\ lexState = Lexer("")
  /\ lexCalls = <<>>

\* ---------------------------------------------------------------- sources

BoolSources ==
  {"(#t 1 z)", "(#f z 1)", "(#t z 1)", "(#f 1 z)",
   "(#t (let a 1) (let b 2))", "(#f (let a 3) (let b 4))",
   "((= 1 1) (let a 1) (let b 2))", "((= 1 2) z 1)",
   "(and #f (let c 1))", "(and #f #t)", "(and #t #f)", "(and #t #t)",
   "(or #t (let c 2))", "(or #t #f)", "(or #f #t)", "(or #f #f)"}

NextBool == \E text \in BoolSources : interpret(<<text>>)

SpecBool == Init /\ [][NextBool]_vars

\* ---------------------------------------------------------------- C1, C10

\* the two-argument call "(c a b)" whose caller c evaluates to a Boolean
BranchCall(h, e) ==
  /\ e.k = "SExpr"
  /\ Len(e.items) = 3
  /\ LET callerVal == evaluate(h, interpretEnv, Head(e.items), 2)
     IN callerVal.isLeft /\ isBool(callerVal.value)

\* the argument such a call selects, and the one it leaves aside
Selected(h, e) ==
  IF evaluate(h, interpretEnv, Head(e.items), 2).value = boolTrue
    THEN e.items[2] ELSE e.items[3]
Unselected(h, e) ==
  IF evaluate(h, interpretEnv, Head(e.items), 2).value = boolTrue
    THEN e.items[3] ELSE e.items[2]

\* C1: a call of #t evaluates only its first argument expression and a call of
\* #f only its second, and returns that result: the objects alive after the
\* call and what it returns are exactly those of evaluating the selected
\* argument alone; a binding the unselected argument would make is not made,
\* and the error the unselected argument would raise is not raised.
C1_SelectedBranchOnly ==
  [][\A text \in BoolSources :
       (/\ lastSource' = <<text>>
        /\ calls' = calls + 1
        /\ BranchCall(heap, exprOf(text)))
       => LET e == exprOf(text)
              alone == evaluate(heap, interpretEnv, Selected(heap, e), 2)
              other == Unselected(heap, e)
          IN /\ heap' = alone.h
             /\ lastResult'.isLeft = alone.isLeft
             /\ lastResult'.msg = alone.msg
             /\ alone.isLeft => lastResult'.vals = <<alone.value>>
             /\ other.k = "ExprLetVar" =>
                  lookup(heap', interpretEnv, other.id)
                    = lookup(heap, interpretEnv, other.id)
             /\ (other = Var("z") /\ Selected(heap, e).k = "number") =>
                  lastResult'.isLeft
  ]_vars

\* "(#t (let a 1) (let b 2))" returned 1 and bound a, and b is still unbound
C1_Witness ==
  /\ lastSource = <<"(#t (let a 1) (let b 2))">>
  /\ lastResult.isLeft
  /\ lastResult.vals = <<Num(1)>>
  /\ lookup(heap, interpretEnv, "a") = Num(1)
  /\ lookup(heap, interpretEnv, "b") = undefined

\* the calls of and / or among the sources
AndOrSources ==
  {text \in BoolSources :
     Head(exprOf(text).items) \in {Var("and"), Var("or")}}

\* C10: (and x y) returns #f without evaluating y when x is #f, (or x y)
\* returns #t without evaluating y when x is #t, and otherwise the call returns
\* the conjunction (and) or disjunction (or) of the two Boolean operands.
C10_AndOrCompute ==
  \A text \in AndOrSources :
    lastSource = <<text>> =>
      LET e == exprOf(text)
          x == e.items[2] = Var("#t")
          y == e.items[3] = Var("#t")
          expected == IF Head(e.items) = Var("and") THEN x /\ y ELSE x \/ y
      IN /\ lastResult.isLeft
         /\ lastResult.vals = <<IF expected THEN boolTrue ELSE boolFalse>>
         /\ e.items[3].k = "ExprLetVar" =>
              lookup(heap, interpretEnv, e.items[3].id) = undefined

\* "(and #t #t)" has been interpreted and did not return #t
C10_Witness ==
  /\ lastSource = <<"(and #t #t)">>
  /\ ~lastResult.isLeft
  /\ lastResult.msg = "unaccepted arguments types ((unknown) <unknown>) for 'and'"

\* ---------------------------------------------------------------- C2, C3, C4

EnvSources ==
  {<<"x">>, <<"(let x 1)">>, <<"(let x 2)">>,
   <<"(let (getx) x)">>, <<"(getx)">>,
   <<"(let (setx n) (let x n))">>, <<"(setx 9)">>,
   <<"(let (setx0) (let x 7))">>, <<"(setx0)">>,
   <<"(let (set2 a b) (let x a))">>, <<"(set2 5 6)">>,
   <<"(let (mk a) [(let (g) a) (let a 7)])", "((get (mk 1) 0))">>,
   <<"(let x 1)", "(let (getx) x)", "(let x 2)", "(getx)">>,
   <<"(let x 1)", "(let (setx n) (let x n))", "(setx 9)", "x">>}

NextEnv == \E source \in EnvSources : interpret(source)

SpecEnv == Init /\ [][NextEnv]_vars

\* the one-form sources that call a user closure whose body is a let of x
LetCallSources == {<<"(setx 9)">>, <<"(setx0)">>, <<"(set2 5 6)">>}

\* the closure a one-form call source calls, when its caller is bound to one
Callee(h, source) == lookup(h, interpretEnv, Head(exprOf(source[1]).items).id)

\* C2: every call of a user closure, for any parameter count including zero,
\* evaluates the body in a newly pushed frame above the closure's captured
\* environment, so a let in the body leaves the captured environment's own
\* frame as it was.
C2_CallPushesFrame ==
  [][\A source \in LetCallSources :
       (/\ lastSource' = source
        /\ calls' = calls + 1
        /\ Callee(heap, source).t = "Closure")
       => LET captured == heap.closures[Callee(heap, source).n].env
          IN /\ Len(heap'.envs) > Len(heap.envs)
             /\ heap'.envs[Len(heap'.envs)].next # 0
             /\ heap'.envs[captured] = heap.envs[captured]
  ]_vars

\* "(setx0)" has been called with x unbound: no frame was pushed, and x is now
\* bound to 7 in the captured (root) frame
C2_Witness ==
  /\ lastSource = <<"(setx0)">>
  /\ lastResult.isLeft
  /\ lastResult.vals = <<Num(7)>>
  /\ Len(heap.envs) = interpretEnv
  /\ heap.envs[interpretEnv].context["x"] = Num(7)

\* C3: a closure holds its definition environment by reference: a call of
\* getx, created in the root frame, returns the value the root frame binds x
\* to at the time of the call, whether x was bound or rebound before or after
\* getx was created; and the closure g, created in a call frame of mk in which a
\* is rebound to 7 afterwards, returns 7.
C3_CapturedByReference ==
  [][/\ (/\ lastSource' = <<"(getx)">>
         /\ calls' = calls + 1
         /\ Callee(heap, <<"(getx)">>).t = "Closure"
         /\ lookup(heap, interpretEnv, "x") # undefined)
        => /\ lastResult'.isLeft
           /\ lastResult'.vals = <<lookup(heap, interpretEnv, "x")>>
     /\ lastSource' = <<"(let x 1)", "(let (getx) x)", "(let x 2)", "(getx)">>
        => /\ lastResult'.isLeft
           /\ lastResult'.vals[4] = Num(2)
     /\ lastSource' = <<"(let (mk a) [(let (g) a) (let a 7)])", "((get (mk 1) 0))">>
        => /\ lastResult'.isLeft
           /\ lastResult'.vals[2] = Num(7)
  ]_vars

\* getx was created while x was 1, x was rebound to 2, and the call gave 2
C3_Witness ==
  /\ lastSource = <<"(let x 1)", "(let (getx) x)", "(let x 2)", "(getx)">>
  /\ lastResult.isLeft
  /\ lastResult.vals[1] = Num(1)
  /\ lastResult.vals[3] = Num(2)
  /\ lastResult.vals[4] = Num(2)

\* the one-form sources that call a closure with parameters whose body is a
\* let of x: the let runs in the frame pushed for the call
FrameLetSources == {<<"(setx 9)">>, <<"(set2 5 6)">>}

\* C4: a let writes only the innermost frame of the environment it is
\* evaluated in.  A let of x in the root frame (re)binds x there and changes
\* nothing else; a let of x in a closure-call frame binds x in that new frame
\* and leaves every frame that existed before the call unchanged, so a lookup
\* of x in the root frame afterwards still gives the root binding.
C4_LetWritesInnermost ==
  [][/\ \A n \in {1, 2} :
          (lastSource' = <<"(let x " \o ToString(n) \o ")">> /\ calls' = calls + 1)
          => /\ heap'.envs[interpretEnv].context
                  = ("x" :> Num(n)) @@ heap.envs[interpretEnv].context
             /\ heap' = [heap EXCEPT !.envs[interpretEnv].context =
                                        heap'.envs[interpretEnv].context]
     /\ \A source \in FrameLetSources :
          (/\ lastSource' = source
           /\ calls' = calls + 1
           /\ Callee(heap, source).t = "Closure")
          => /\ lastResult'.isLeft
             /\ \A env \in 1..Len(heap.envs) : heap'.envs[env] = heap.envs[env]
             /\ Len(heap'.envs) > Len(heap.envs)
             /\ heap'.envs[Len(heap'.envs)].context["x"] = lastResult'.vals[1]
             /\ lookup(heap', interpretEnv, "x") = lookup(heap, interpretEnv, "x")
     /\ lastSource' = <<"(let x 1)", "(let (setx n) (let x n))", "(setx 9)", "x">>
        => /\ lastResult'.isLeft
           /\ lastResult'.vals[3] = Num(9)
           /\ lastResult'.vals[4] = Num(1)
  ]_vars

\* x was 1 in the root frame, "(setx 9)" bound x to 9 in its call frame, and x
\* is still 1 in the root frame
C4_Witness ==
  /\ lastSource = <<"(setx 9)">>
  /\ lastResult.isLeft
  /\ lastResult.vals = <<Num(9)>>
  /\ heap.envs[Len(heap.envs)].context["x"] = Num(9)
  /\ lookup(heap, interpretEnv, "x") = Num(1)

\* ---------------------------------------------------------------- C5

ArityCalls ==
  {"(f 1)", "(f)", "(f (push xs 1) (push xs 2))", "(f (let z 1) 2)",
   "(add (push xs 1))", "(len xs (let z 1))", "(and (let z 1))",
   "(#t (let z 1))", "(len xs)"}

AritySources == {"(let xs [])", "(let (f a) a)", "(push xs 1)"} \cup ArityCalls

NextArity == \E text \in AritySources : interpret(<<text>>)

SpecArity == Init /\ [][NextArity]_vars

\* the parameter count of a closure or builtin closure
ParamCount(h, c) ==
  IF c.t = "Closure" THEN Len(h.closures[c.n].params) ELSE Len(BuiltinParams[c.s])

\* the calls whose caller is bound to a closure or builtin closure taking
\* another number of arguments than the call gives
Mismatch(h, text) ==
  LET e == exprOf(text)
      c == lookup(h, interpretEnv, Head(e.items).id)
  IN /\ c.t \in {"Closure", "BuiltinClosure"}
     /\ ParamCount(h, c) # Len(e.items) - 1

\* the text of the arity error such a call fails with
ArityMessage(h, text) ==
  LET e == exprOf(text)
      c == lookup(h, interpretEnv, Head(e.items).id)
      name == IF c.t = "Closure" THEN "'" \o h.closures[c.n].id \o "' defined"
              ELSE "'" \o BuiltinId(c.s) \o "'"
  IN "number of arguments: function " \o name \o ": expected "
       \o ToString(ParamCount(h, c)) \o ", got " \o ToString(Len(e.items) - 1)

ListMutators ==
  {"(push xs 3)", "(push-front ys 0)", "(pop xs)", "(set ys 0 9)",
   "(tryset xs 1 8)", "(del-ins ys 0 1 [7 7])"}

DictMutators == {"(set e 1 \"c\")", "(tryset d 2 \"c\")"}

ShareSources ==
  {<<"(let xs [1 2])", "(let ys xs)", "(let c [xs])">>,
   <<"(let d {(1 \"a\") (2 \"b\")})", "(let e d)">>,
   <<"(let xs [1 2])">>, <<"(let ys xs)">>}
  \cup {<<text>> : text \in ListMutators \cup DictMutators}

NextShare == \E source \in ShareSources : interpret(source)

SpecShare == Init /\ [][NextShare]_vars

\* the aggregate a mutator's first argument names
Target(h, text) == lookup(h, interpretEnv, exprOf(text).items[2].id)

\* what each list mutator makes of the values old
Mutated(text, old) ==
  CASE text = "(push xs 3)" -> Append(old, Num(3))
    [] text = "(push-front ys 0)" -> <<Num(0)>> \o old
    [] text = "(pop xs)" -> SubSeq(old, 1, Len(old) - 1)
    [] text = "(set ys 0 9)" -> <<Num(9)>> \o Tail(old)
    [] text = "(tryset xs 1 8)" ->
         IF Len(old) >= 2 THEN <<old[1], Num(8)>> \o SubSeq(old, 3, Len(old))
         ELSE old
    [] text = "(del-ins ys 0 1 [7 7])" ->
         <<Num(7), Num(7)>> \o (IF old = <<>> THEN <<>> ELSE Tail(old))

\* the list mutator applies: its target is a list, and not an empty one for
\* pop and set
Applies(h, text) ==
  /\ Target(h, text).t = "List"
  /\ text \in {"(pop xs)", "(set ys 0 9)"} => h.lists[Target(h, text).n] # <<>>

\* the entry of key k of a dict's data set to value v
WithEntry(data, k, v) ==
  [i \in DOMAIN data |-> IF data[i].key = k THEN [key |-> k, value |-> v] ELSE data[i]]

\* C6: lists and dicts are shared by reference.  A mutator applied through one
\* binding changes the one aggregate object in place and rebinds nothing, so xs,
\* ys and the slot of the container c, where they hold that aggregate, all
\* show the mutated values (likewise d and e); every other list is as before;
\* and push, push-front, set and del-ins return the identical aggregate.
C6_SharedByReference ==
  [][/\ \A text \in ListMutators :
          (/\ lastSource' = <<text>>
           /\ calls' = calls + 1
           /\ Applies(heap, text))
          => LET v == Target(heap, text)
                 new == Mutated(text, heap.lists[v.n])
                 c == lookup(heap, interpretEnv, "c")
             IN /\ lastResult'.isLeft
                /\ heap'.envs = heap.envs
                /\ \A id \in {"xs", "ys"} :
                     lookup(heap, interpretEnv, id) = v
                       => heap'.lists[lookup(heap', interpretEnv, id).n] = new
                /\ (c.t = "List" /\ heap.lists[c.n] = <<v>>)
                     => heap'.lists[heap'.lists[c.n][1].n] = new
                /\ \A a \in 1..Len(heap.lists) :
                     a # v.n => heap'.lists[a] = heap.lists[a]
                /\ text \in {"(push xs 3)", "(push-front ys 0)", "(set ys 0 9)",
                             "(del-ins ys 0 1 [7 7])"}
                     => lastResult'.vals = <<v>>
     /\ \A text \in DictMutators :
          (/\ lastSource' = <<text>>
           /\ calls' = calls + 1
           /\ Target(heap, text).t = "Dict")
          => LET v == Target(heap, text)
                 new == WithEntry(heap.dicts[v.n], Num(exprOf(text).items[3].n), Str("c"))
             IN /\ lastResult'.isLeft
                /\ lastResult'.vals = <<v>>
                /\ heap'.envs = heap.envs
                /\ \A id \in {"d", "e"} :
                     lookup(heap, interpretEnv, id) = v
                       => heap'.dicts[lookup(heap', interpretEnv, id).n] = new
  ]_vars

\* xs, ys and the slot of c hold one list, "(push xs 3)" returned that very
\* list, and ys and c show [1 2 3] and [[1 2 3]]
C6_Witness ==
  /\ lastSource = <<"(push xs 3)">>
  /\ lastResult.vals = <<lookup(heap, interpretEnv, "xs")>>
  /\ lookup(heap, interpretEnv, "xs").t = "List"
  /\ lookup(heap, interpretEnv, "c").t = "List"
  /\ lookup(heap, interpretEnv, "ys") = lookup(heap, interpretEnv, "xs")
  /\ toString(heap, lookup(heap, interpretEnv, "ys")) = "[1 2 3]"
  /\ toString(heap, lookup(heap, interpretEnv, "c")) = "[[1 2 3]]"

\* ---------------------------------------------------------------- C7

PushProgram == <<"(let xs [1 2 3])", "(push xs 4)", "(len xs)">>

ExecSources ==
  {PushProgram,
   <<"(let xs [1 2 3])", "(len xs)">>,
   <<"(let xs [1 2 3])", "(pop xs)", "(len xs)">>,
   <<"(let xs [])", "(push xs 1)", "(len xs)">>,
   <<"(push xs 4)", "(len xs)">>,
   <<"(let xs [1 2])", "(let ys xs)", "(push-front ys 0)", "(len xs)">>}

NextExec == \E source \in ExecSources : execute(source)

SpecExec == Init /\ [][NextExec]_vars

\* C7 as stated: the results execute returns for PushProgram are a list
\* showing as [1 2 3], a list showing as [1 2 3 4], and the number 4.
C7_Stated ==
  lastSource = PushProgram =>
    /\ lastResult.isLeft
    /\ Len(lastResult.vals) = 3
    /\ toString(heap, lastResult.vals[1]) = "[1 2 3]"
    /\ toString(heap, lastResult.vals[2]) = "[1 2 3 4]"
    /\ lastResult.vals[3] = Num(4)

\* C7, amended: the first two results execute returns for PushProgram are one
\* and the same list, which shows as [1 2 3 4] once execute has returned (the
\* push has been applied to the list the let returned), and the third result
\* is the number 4.
C7_Amended ==
  lastSource = PushProgram =>
    /\ lastResult.isLeft
    /\ Len(lastResult.vals) = 3
    /\ lastResult.vals[1].t = "List"
    /\ lastResult.vals[2] = lastResult.vals[1]
    /\ heap.lists[lastResult.vals[1].n] = <<Num(1), Num(2), Num(3), Num(4)>>
    /\ toString(heap, lastResult.vals[1]) = "[1 2 3 4]"
    /\ toString(heap, lastResult.vals[2]) = "[1 2 3 4]"
    /\ lastResult.vals[3] = Num(4)
    /\ toString(heap, lastResult.vals[3]) = "4"

\* execute has returned the three results of PushProgram, evaluated in a fresh
\* environment
C7_Witness ==
  /\ lastSource = PushProgram
  /\ lastEnv > interpretEnv
  /\ Len(lastResult.vals) = 3
  /\ lastResult.vals[3] = Num(4)
  /\ toString(heap, lookup(heap, lastEnv, "xs")) = "[1 2 3 4]"

\* ---------------------------------------------------------------- C8

FactDef == "(let (fact n) ((= n 0) 1 (mul n (fact (sub n 1)))))"

NextFact == \E k \in FactArgs : execute(<<FactDef, FactCall(k)>>)

SpecFact == Init /\ [][NextFact]_vars

RECURSIVE Factorial(_)
Factorial(k) == IF k = 0 THEN 1 ELSE k * Factorial(k - 1)

\* C8: with fact defined, (fact k) terminates for every non-negative k and
\* returns k factorial, 120 for 5: the call returns a value instead of
\* exhausting the host stack, and the recursive branch has been evaluated k
\* times and no more, so that k + 1 call frames of fact have been pushed above
\* the fresh initial frame.
C8_FactTerminates ==
  [][\A k \in 0..MaxN :
       (lastSource' = <<FactDef, FactCall(k)>> /\ calls' = calls + 1)
       => /\ lastResult'.isLeft
          /\ lastResult'.vals[2] = Num(Factorial(k))
          /\ k = 5 => lastResult'.vals[2] = Num(120)
          /\ Len(heap'.envs) = Len(heap.envs) + 1 + (k + 1)
  ]_vars

\* (fact 5) has returned 120
C8_Witness ==
  /\ lastSource = <<FactDef, FactCall(5)>>
  /\ lastResult.isLeft
  /\ lastResult.vals[2] = Num(120)

\* ---------------------------------------------------------------- C9

ListAccesses ==
  UNION {{GetXs(i), TrygetXs(i), SetXs(i), TrysetXs(i)} : i \in Indices}

DictAccesses ==
  UNION {{GetD(k), TrygetD(k), SetD(k), TrysetD(k)} : k \in Keys}

IndexSources ==
  {"(let xs [1 2])", "(push xs 3)", "(pop xs)", "(let d {(1 \"a\") (2 \"b\")})"}
  \cup ListAccesses \cup DictAccesses

NextIndex == \E text \in IndexSources : interpret(<<text>>)

SpecIndex == Init /\ [][NextIndex]_vars

\* the builtin an access calls and the index or key it gives
Accessor(text) == Head(exprOf(text).items).id
AccessKey(text) == exprOf(text).items[3].n

\* a failed call
Fails(r) == ~r.isLeft /\ r.vals = <<>>
\* a call that returned the one value v
Returns(r, v) == r.isLeft /\ r.vals = <<v>>

QueueSources ==
  {"(let xs [])", "(let xs [7])", "(let xs [1 2])", "(let xs [1 2 3])",
   "(push xs 4)", "(push-front xs 0)", "(pop-front xs)", "(len xs)"}

NextQueue == \E text \in QueueSources : interpret(<<text>>)

SpecQueue == Init /\ [][NextQueue]_vars

\* C11: (pop-front xs) on a list of one or more elements removes the first
\* element and returns it, the remaining elements keeping their order; on an
\* empty list it fails and the list stays empty
C11_PopFrontRemovesFirst ==
  [][(/\ lastSource' = <<"(pop-front xs)">>
      /\ calls' = calls + 1
      /\ lookup(heap, interpretEnv, "xs").t = "List")
     => LET xs == lookup(heap, interpretEnv, "xs")
            old == heap.lists[xs.n]
            new == heap'.lists[xs.n]
        IN IF old = <<>>
             THEN Fails(lastResult') /\ new = <<>>
             ELSE Returns(lastResult', Head(old)) /\ new = Tail(old)]_vars

\* (pop-front xs) has acted on the list [1 2]: it returned 2 and left [1]
C11_Witness ==
  /\ lastSource = <<"(pop-front xs)">>
  /\ lastResult.isLeft
  /\ lastResult.vals = <<Num(2)>>
  /\ lookup(heap, interpretEnv, "xs").t = "List"
  /\ heap.lists[lookup(heap, interpretEnv, "xs").n] = <<Num(1)>>

\* ---------------------------------------------------------------- mod

ModCalls == {ModCall(a, b) : a \in Dividends, b \in Divisors}

ModSources ==
  ModCalls \cup {"(let r (mod 7 0))", "(let r (mod 7 2))", "(let q (mod r 0))",
                 "(= r r)", "(add r 1)"}

NextMod == \E text \in ModSources : interpret(<<text>>)

SpecMod == Init /\ [][NextMod]_vars

\* C16: (mod a 0) fails with an evaluation error, for every number a
C16_ModByZeroFails ==
  [][\A a \in Dividends :
       (lastSource' = <<ModCall(a, 0)>> /\ calls' = calls + 1)
       => Fails(lastResult')]_vars

\* (mod 7 0) has acted: it returned NaN as an ordinary result
C16_Witness ==
  /\ lastSource = <<ModCall(7, 0)>>
  /\ Returns(lastResult, NaN)

\* ---------------------------------------------------------------- ordering

\* the pairs of list literals compared
ListPairs ==
  {<<"[9]", "[10]">>, <<"[10]", "[9]">>, <<"[1 2]", "[1 3]">>,
   <<"[1 3]", "[1 2]">>, <<"[1]", "[1 2]">>, <<"[9]", "[9]">>, <<"[]", "[1]">>}

CmpSources == {CmpCall(op, p[1], p[2]) : op \in Comparisons, p \in ListPairs}

NextCmp == \E text \in CmpSources : interpret(<<text>>)

SpecCmp == Init /\ [][NextCmp]_vars

\* the numbers a list literal writes
Elements(text) == [i \in 1..Len(exprOf(text).items) |-> exprOf(text).items[i].n]

RECURSIVE Lexicographic(_, _)
\* a comes before b in the lexicographic order of two sequences of numbers
Lexicographic(a, b) ==
  CASE b = <<>> -> FALSE
    [] a = <<>> -> TRUE
    [] Head(a) = Head(b) -> Lexicographic(Tail(a), Tail(b))
    [] OTHER -> Head(a) < Head(b)

\* what the comparison op says of two sequences ordered lexicographically
Ordered(op, a, b) ==
  CASE op = "lt" -> Lexicographic(a, b)
    [] op = "gt" -> Lexicographic(b, a)
    [] op = "le" -> ~Lexicographic(b, a)
    [] op = "ge" -> ~Lexicographic(a, b)

\* C12: lt, gt, le and ge on two lists of numbers return the lexicographic
\* comparison of the lists, element by element: [9] is less than [10] and
\* [1 2] is less than [1 3]
C12_ListsLexicographic ==
  [][\A op \in Comparisons, p \in ListPairs :
       (lastSource' = <<CmpCall(op, p[1], p[2])>> /\ calls' = calls + 1)
       => Returns(lastResult',
                  IF Ordered(op, Elements(p[1]), Elements(p[2])) THEN boolTrue
                  ELSE boolFalse)]_vars

\* (lt [9] [10]) has acted and returned #f
C12_Witness ==
  /\ lastSource = <<CmpCall("lt", "[9]", "[10]")>>
  /\ Returns(lastResult, boolFalse)

\* ---------------------------------------------------------------- dict keys

KeyObjects == <<"(let k [1])", "(let e {})", "(let (f) 1)">>

KeyDicts ==
  {"(let d {(k \"list\") (e \"dict\") (f \"fun\") (1 \"num\") (\"1\" \"str\")})",
   "(let d {(1 \"a\") (\"1\" \"b\") (1 \"c\") ([1] \"d\") ([1] \"e\")})"}

KeyLookups ==
  {"(get d k)", "(get d [1])", "(get d e)", "(get d {})", "(get d f)",
   "(get d (\\ () 1))", "(get d \"1\")", "(get d (add 0 1))",
   "(get d (add \"\" \"1\"))", "(get d 2)"}

KeySources ==
  {KeyObjects} \cup {<<text>> : text \in KeyDicts \cup KeyLookups}

NextKeys == \E source \in KeySources : interpret(source)

SpecKeys == Init /\ [][NextKeys]_vars

\* two keys denote one entry: numbers and strings when equal by value, a
\* number never with a string, an object only with itself
SameKey(a, b) ==
  CASE a.t # b.t -> FALSE
    [] a.t = "Number" -> a.n = b.n
    [] a.t = "String" -> a.s = b.s
    [] OTHER -> a.n = b.n

LetVarOf(id) == "(let " \o id \o " 1)"
LetFuncOf(id) == "(let (" \o id \o " a) a)"
LetParamOf(id) == "(let (f " \o id \o ") 1)"
LambdaParamOf(id) == "(\\ (" \o id \o ") 1)"

BindingForms ==
  {LetVarOf(id) : id \in KEYWORD} \cup {LetFuncOf(id) : id \in KEYWORD}
    \cup {LetParamOf(id) : id \in KEYWORD} \cup {LambdaParamOf(id) : id \in KEYWORD}

DoForms == {"(do)", "(do 1)", "(do (let x 1) x)"}

ReadSources ==
  BindingForms \cup DoForms
    \cup {LetVarOf("x"), LetFuncOf("g"), LetParamOf("b"), LambdaParamOf("a")}

NextRead == \E text \in ReadSources : interpret(<<text>>)

SpecRead == Init /\ [][NextRead]_vars

\* the message of a failure of the reader
IsSyntaxError(msg) == Len(msg) >= 13 /\ SubSeq(msg, 1, 13) = "syntax error:"

RECURSIVE HasEmptyDo(_)
\* an expression holds a Do node with zero expressions
HasEmptyDo(e) ==
  CASE e.k = "ExprDo" -> e.exprs = <<>> \/ \E i \in 1..Len(e.exprs) : HasEmptyDo(e.exprs[i])
    [] e.k \in {"SExpr", "ListExpr"} -> \E i \in 1..Len(e.items) : HasEmptyDo(e.items[i])
    [] e.k = "ExprLetVar" -> HasEmptyDo(e.expr)
    [] e.k \in {"ExprLetFunc", "ExprLambda"} -> HasEmptyDo(e.body)
    [] OTHER -> FALSE

\* C17: reading the source (do) fails in the reader with a syntax error, and
\* the reader hands no Do node with zero expressions to the evaluator
C17_EmptyDoRejected ==
  [][/\ (lastSource' = <<"(do)">> /\ calls' = calls + 1)
          => /\ ~parse(macroReg, "(do)").isLeft
             /\ ~lastResult'.isLeft
             /\ IsSyntaxError(lastResult'.msg)
     /\ \A text \in ReadSources :
          (lastSource' = <<text>> /\ calls' = calls + 1)
          => LET ast == parse(macroReg, text)
             IN \A i \in 1..Len(ast.exprs) : ~HasEmptyDo(ast.exprs[i])]_vars

\* (do) has been read as a Do node with zero expressions and has failed in
\* the evaluator
C17_Witness ==
  /\ lastSource = <<"(do)">>
  /\ parse(macroReg, "(do)").isLeft
  /\ parse(macroReg, "(do)").exprs = <<ExprDo(<<>>)>>
  /\ ~lastResult.isLeft
  /\ lastResult.msg = "never here"

\* C20: a source that uses a reserved identifier as a let variable name, a let
\* function name, a let function parameter or a lambda parameter is rejected
\* by the reader with a syntax error
C20_KeywordBindingRejected ==
  [][\A text \in BindingForms :
       (lastSource' = <<text>> /\ calls' = calls + 1)
       => /\ ~parse(macroReg, text).isLeft
          /\ ~lastResult'.isLeft
          /\ IsSyntaxError(lastResult'.msg)]_vars

\* a lambda whose parameter is the keyword let has been read and evaluated to
\* a closure
C20_Witness ==
  /\ lastSource = <<LambdaParamOf("let")>>
  /\ parse(macroReg, LambdaParamOf("let")).exprs = <<ExprLambda(<<"let">>, NumberExpr(1))>>
  /\ lastResult.isLeft
  /\ lastResult.vals[1].t = "Closure"
  /\ heap.closures[lastResult.vals[1].n].params = <<"let">>

\* ---------------------------------------------------------------- macros

Unless == "(macro (unless %c{expr} %b{expr}) (%c () %b))"
UnlessAgain == "(macro (unless %c{expr}) %c)"
Twice == "(macro (twice %a{expr} %*) [%a %%a])"
\* a macro form whose closing parenthesis is missing
Open == "(macro (open %a{expr}) %a"

MacroForms == {Unless, UnlessAgain, Twice, Open}

UnlessProgram == <<Unless, "(unless (= 1 2) \"ran\")", "(unless (= 1 1) \"ran\")">>

Rebinding == <<"(let r (add 5 3))", "(let add sub)", "r">>

MacroSources ==
  {<<text>> : text \in MacroForms}
    \cup {UnlessProgram, Rebinding, <<"(unless (= 1 2) \"ran\")">>, <<"[1 2]">>}

NextMacro == \E source \in MacroSources : execute(source)

SpecMacro == Init /\ [][NextMacro]_vars

\* the name a macro form defines: its fourth token
MacroNameOf(text) ==
  next(next(next(next(Lexer(text)).lexer).lexer).lexer).token.literal

\* C18: reading a macro form whose name is in the registry fails with the
\* syntax error "redefined macro" and leaves the registry as it was; whatever
\* is read, every registered name keeps the definition it was first given
C18_FirstDefinitionKept ==
  [][/\ \A text \in MacroForms :
          (/\ lastSource' = <<text>>
           /\ calls' = calls + 1
           /\ macroRegHas(macroReg, MacroNameOf(text)))
          => /\ ~lastResult'.isLeft
             /\ lastResult'.msg
                  = "syntax error: redefined macro '" \o MacroNameOf(text) \o "'"
             /\ macroReg' = macroReg
     /\ Len(macroReg') >= Len(macroReg)
     /\ \A i \in 1..Len(macroReg) : macroReg'[i] = macroReg[i]
     /\ \A i, j \in 1..Len(macroReg') :
          macroReg'[i].name = macroReg'[j].name => i = j]_vars

\* a second, different definition of unless has been rejected: the registry
\* still holds the first one
C18_Witness ==
  /\ lastSource = <<UnlessAgain>>
  /\ lastResult.msg = "syntax error: redefined macro 'unless'"
  /\ macroRegHas(macroReg, "unless")
  /\ macroRegGet(macroReg, "unless").body
       = MacroParenExpr("(", <<MacroVar("c"), MacroParenExpr("(", <<>>), MacroVar("b")>>)
  /\ Len(macroRegGet(macroReg, "unless").args) = 2

\* C19: the source that defines the macro unless and calls it with a false
\* and with a true condition gives the results unit, "ran" and unit
C19_UnlessExpands ==
  [][(lastSource' = UnlessProgram /\ calls' = calls + 1)
     => /\ lastResult'.isLeft
        /\ lastResult'.vals = <<unit, Str("ran"), unit>>]_vars

\* the source has been executed with no macro registered before: the reader
\* has registered unless and has failed on the parenthesis that closes the
\* macro form
C19_Witness ==
  /\ lastSource = UnlessProgram
  /\ calls = 1
  /\ ~lastResult.isLeft
  /\ lastResult.msg = "syntax error: unexpected ')'"
  /\ macroRegHas(macroReg, "unless")

\* what a caller sees of a call: success or failure, the message, and the
\* values as they print
Outcome(h, r) ==
  [isLeft |-> r.isLeft, msg |-> r.msg,
   shown |-> [i \in 1..Len(r.vals) |-> toString(h, r.vals[i])]]

\* C14: execute on the source it was last called on gives the outcome it gave
\* then, the same values or the same error
C14_ExecuteDeterministic ==
  [][(calls > 0 /\ calls' = calls + 1 /\ lastSource' = lastSource)
     => Outcome(heap', lastResult') = Outcome(heap, lastResult)]_vars

\* the source that defines unless has been executed twice in a row, and the
\* second run has failed on the redefinition
C14_Witness ==
  /\ lastSource = <<Unless>>
  /\ calls = 2
  /\ Len(macroReg) = 1
  /\ lastResult.msg = "syntax error: redefined macro 'unless'"

\* ---------------------------------------------------------------- failures

ErrSources ==
  {<<"(add 1 2)">>, <<"(parse \"12\")">>, <<"(parse \"abc\")">>, <<"(parse 1)">>,
   <<"(nope)">>, <<"(get [1] 5)">>, <<")">>, <<"(let">>, <<"">>,
   <<Unless>>, <<"(unless 1 2)">>}

NextErr ==
  \/ \E source \in ErrSources : interpret(source)
  \/ \E source \in ErrSources : execute(source)

SpecErr == Init /\ [][NextErr]_vars

\* C15: whatever the source, Parser.parse and execute / interpret return: a
\* failure of the reader or of the evaluator comes back as the fail
\* alternative with its message, and no exception leaves them
C15_FailuresReturned ==
  [][calls' = calls + 1
     => /\ ~parse(macroReg, SourceText(lastSource')).thrown
        /\ ~lastResult'.thrown]_vars

\* (parse "abc") has been evaluated: the builtin has thrown "number NaN"
C15_Witness ==
  /\ lastSource = <<"(parse \"abc\")">>
  /\ parse(macroReg, SourceText(lastSource)).isLeft
  /\ ~lastResult.isLeft
  /\ lastResult.thrown
  /\ lastResult.msg = "number NaN"

\* ---------------------------------------------------------------- lexer calls

\* sources a Lexer is constructed on
LexSources ==
  {"a b", "(a b)", ")", "]", "}", "(]", "[a}", "([{}])", "(f [1 2] {})",
   "a ; c\nb", "(a ; (\n b)", "\"s t\" x", "(f \"(\")", "\"a;b\" -1", "% \" x",
   "{(k [1])}", "a\n b", "\"a\" \"b\""}

NextLex ==
  \/ \E source \in LexSources : newLexer(source)
  \/ callLookNext
  \/ callNext

SpecLex == Init /\ [][NextLex]_vars

\* the last call on the Lexer
lastLexCall == lexCalls[Len(lexCalls)]

C22_LookNextChangesNothing ==
  [][(Len(lexCalls') = Len(lexCalls) + 1 /\ lexCalls'[Len(lexCalls')].call = "lookNext")
       => lexState' = lexState]_vars

\* on "a b", behind the token a, lookNext has moved the position over the
\* blank
C22_Witness ==
  /\ lexInput = "a b"
  /\ Len(lexCalls) = 2
  /\ lexCalls[1].call = "next"
  /\ lexCalls[2].call = "lookNext"
  /\ next(Lexer("a b")).lexer.source = " b"
  /\ next(Lexer("a b")).lexer.column = 2
  /\ lexState.source = "b"
  /\ lexState.column = 3

\* ---------------------------------------------------------------- bracket counts

\* the bracket a closing bracket closes
openedParen(clPr) == IF clPr = ")" THEN "(" ELSE IF clPr = "]" THEN "[" ELSE "{"

\* the position behind the string that opens at the quote src begins with, 0
\* when no quote closes it
RECURSIVE closingQuote(_, _)
closingQuote(src, n) ==
  CASE n >= Len(src) -> 0
    [] charAt(src, n + 1) = "\"" -> n + 1
    [] OTHER -> closingQuote(src, n + 1)

\* the position behind the line src begins with
RECURSIVE lineEnd(_, _)
lineEnd(src, n) ==
  CASE n >= Len(src) -> Len(src)
    [] charAt(src, n + 1) = "\n" -> n + 1
    [] OTHER -> lineEnd(src, n + 1)

\* the brackets of src outside strings and comments are balanced and properly
\* nested below the open brackets of the stack
RECURSIVE Nested(_, _)
Nested(src, stack) ==
  Bind(charAt(src, 1), LAMBDA c :
  CASE src = "" -> stack = <<>>
    [] c = ";" -> Nested(slice(src, lineEnd(src, 0)), stack)
    [] c = "\"" /\ closingQuote(src, 1) > 0 ->
         Nested(slice(src, closingQuote(src, 1)), stack)
    [] c \in {"(", "[", "{"} -> Nested(slice(src, 1), Append(stack, c))
    [] c \in {")", "]", "}"} ->
         /\ stack # <<>>
         /\ stack[Len(stack)] = openedParen(c)
         /\ Nested(slice(src, 1), SubSeq(stack, 1, Len(stack) - 1))
    [] OTHER -> Nested(slice(src, 1), stack))

Balanced(src) == Nested(src, <<>>)

\* C23: on a source whose brackets are balanced and properly nested, no next
\* call makes a count negative or returns an error token, and once next has
\* returned the eof token the three counts are zero.
C23_BalancedCounts ==
  Balanced(lexInput) =>
    /\ lexState.paren >= 0 /\ lexState.brack >= 0 /\ lexState.curly >= 0
    /\ ~lexState.hadErr
    /\ \A i \in 1..Len(lexCalls) : lexCalls[i].token.type # "err"
    /\ (lexCalls # <<>> /\ lastLexCall = [call |-> "next", token |-> eofToken])
         => lexState.paren = 0 /\ lexState.brack = 0 /\ lexState.curly = 0

\* "([{}])" read to its end by next calls alone
C23_Witness ==
  /\ lexInput = "([{}])"
  /\ Balanced(lexInput)
  /\ Len(lexCalls) = 7
  /\ \A i \in 1..7 : lexCalls[i].call = "next"
  /\ \A i \in 1..6 : lexCalls[i].token = Token("symbol", charAt(lexInput, i), 1, i)
  /\ lexCalls[7].token = eofToken
  /\ lexState.paren = 0 /\ lexState.brack = 0 /\ lexState.curly = 0

\* the count the ParenCounter of a lexer keeps for a closing bracket
countOf(lexer, clPr) ==
  IF clPr = ")" THEN lexer.paren ELSE IF clPr = "]" THEN lexer.brack ELSE lexer.curly

\* C24: a next call that consumes a closing bracket while the count of that
\* kind of bracket is zero returns an error token, not a symbol token.
C24_UnmatchedCloserIsError ==
  [][(/\ Len(lexCalls') = Len(lexCalls) + 1
      /\ lexCalls'[Len(lexCalls')].call = "next"
      /\ lookNext(lexState).token.type = "symbol"
      /\ lookNext(lexState).token.literal \in {")", "]", "}"}
      /\ countOf(lexState, lookNext(lexState).token.literal) = 0)
       => lexCalls'[Len(lexCalls')].token.type = "err"]_vars

\* on "]" the next call has returned the symbol and left the count of square
\* brackets at -1
C24_Witness ==
  /\ lexInput = "]"
  /\ lexCalls = <<[call |-> "next", token |-> Token("symbol", "]", 1, 1)]>>
  /\ countOf(Lexer(lexInput), "]") = 0
  /\ lexState.brack = -1
  /\ ~lexState.hadErr

\* ---------------------------------------------------------------- literals

Brackets == {"(", ")", "[", "]", "{", "}"}

BracketFree(src) == \A i \in 1..Len(src) : charAt(src, i) \notin Brackets

\* src holds a ';' outside its string literals, which opens a comment
RECURSIVE hasComment(_)
hasComment(src) ==
  CASE src = "" -> FALSE
    [] charAt(src, 1) = ";" -> TRUE
    [] charAt(src, 1) = "\"" /\ closingQuote(src, 1) > 0 ->
         hasComment(slice(src, closingQuote(src, 1)))
    [] OTHER -> hasComment(slice(src, 1))

\* src with all its white characters removed
RECURSIVE withoutWhites(_)
withoutWhites(src) ==
  CASE src = "" -> ""
    [] isWhiteChar(charAt(src, 1)) -> withoutWhites(slice(src, 1))
    [] OTHER -> charAt(src, 1) \o withoutWhites(slice(src, 1))

\* src with the white characters outside its string literals removed; a
\* string literal runs from a quote to the next quote
RECURSIVE withoutWhitesBetweenTokens(_)
withoutWhitesBetweenTokens(src) ==
  CASE src = "" -> ""
    [] isWhiteChar(charAt(src, 1)) -> withoutWhitesBetweenTokens(slice(src, 1))
    [] charAt(src, 1) = "\"" /\ closingQuote(src, 1) > 0 ->
         SubSeq(src, 1, closingQuote(src, 1))
           \o withoutWhitesBetweenTokens(slice(src, closingQuote(src, 1)))
    [] OTHER -> charAt(src, 1) \o withoutWhitesBetweenTokens(slice(src, 1))

\* the literals of the tokens the calls returned, concatenated
RECURSIVE literals(_)
literals(returned) ==
  IF returned = <<>> THEN ""
  ELSE returned[1].token.literal \o literals(Tail(returned))

\* a source without brackets and comments has been read to its end by next
\* calls alone
ReadToEnd ==
  /\ BracketFree(lexInput) /\ ~hasComment(lexInput)
  /\ lexCalls # <<>>
  /\ \A i \in 1..Len(lexCalls) : lexCalls[i].call = "next"
  /\ lastLexCall.token = eofToken

\* C25 as stated: the literals of the tokens of a source without brackets and
\* comments, concatenated, are the source with all white characters removed.
C25_Stated == ReadToEnd => literals(lexCalls) = withoutWhites(lexInput)

\* C25 as amended: the literals, concatenated, are the source with the white
\* characters outside string literals removed (a string token keeps the white
\* characters between its quotes).
C25_LiteralsAreSource ==
  ReadToEnd => literals(lexCalls) = withoutWhitesBetweenTokens(lexInput)

\* "s t" x read to its end: the blank inside the string is kept, the blank
\* behind it is dropped
C25_Witness ==
  /\ lexInput = "\"s t\" x"
  /\ ReadToEnd
  /\ Len(lexCalls) = 3
  /\ lexCalls[1].token = Token("string", "\"s t\"", 1, 1)
  /\ lexCalls[2].token = Token("identifier", "x", 1, 7)
  /\ literals(lexCalls) = "\"s t\"x"

\* ---------------------------------------------------------------- comments

\* top-level forms, and comments that follow a form
CommentedForms == {"(add 1 2)", "7", "(let x 3)", "[1 2]", "x"}
Comments == {"; sum", ";", "; (\n"}

CommentSources ==
  {<<form>> : form \in CommentedForms}
    \cup {<<form, comment>> : form \in CommentedForms, comment \in Comments}
    \cup {<<"(add 1 2)", "; sum\n", "(add x 1)">>}

NextComment ==
  \E source \in CommentSources : interpret(source) \/ execute(source)

SpecComment == Init /\ [][NextComment]_vars

\* C26: a source whose last form is followed by white characters and a
\* comment is read as the source without the comment is read, with no error.
C26_TrailingComment ==
  [][\A form \in CommentedForms : \A comment \in Comments :
       (lastSource' = <<form, comment>> /\ calls' = calls + 1)
       => /\ parse(macroReg, SourceText(<<form, comment>>)).isLeft
          /\ parse(macroReg, SourceText(<<form, comment>>)).exprs
               = parse(macroReg, form).exprs]_vars

\* (add 1 2) ; sum has failed in the reader, while (add 1 2) alone is read
C26_Witness ==
  /\ lastSource = <<"(add 1 2)", "; sum">>
  /\ parse(macroReg, "(add 1 2)").isLeft
  /\ ~parse(macroReg, "(add 1 2) ; sum").isLeft
  /\ parse(macroReg, "(add 1 2) ; sum").msg = "syntax error: unexpected EOF"
  /\ ~lastResult.isLeft
  /\ lastResult.msg = "syntax error: unexpected EOF"

\* ---------------------------------------------------------------- truth values

\* a call of every builtin that yields a truth value
TruthCalls ==
  {"(= 1 1)", "(= 1 2)", "(!= 1 2)", "(lt 1 2)", "(gt 1 2)", "(le 2 2)",
   "(ge 1 2)", "(empty? [])", "(empty? \"a\")", "(not #t)", "(not #f)",
   "(and #t #f)", "(or #f #t)", "(type-is 1 \"Number\")",
   "(type-is 1 \"String\")"}

\* the result of the call used as a two-branch selector
Selecting(call) == "(" \o call \o " 10 20)"

TruthSources ==
  TruthCalls \cup {Selecting(call) : call \in TruthCalls}
    \cup {"(let b (type-is 1 \"Number\"))", "(= b #t)", "(type b)"}

NextTruth == \E text \in TruthSources : interpret(<<text>>)

SpecTruth == Init /\ [][NextTruth]_vars

\* C27: a call of a builtin that yields a truth value returns, when it
\* succeeds, one of the two Booleans #t and #f, and that result called with
\* two arguments selects one of them.
C27_TruthValuesAreBooleans ==
  [][\A call \in TruthCalls :
       /\ (lastSource' = <<call>> /\ calls' = calls + 1 /\ lastResult'.isLeft)
            => isBool(lastResult'.vals[1])
       /\ (lastSource' = <<Selecting(call)>> /\ calls' = calls + 1
             /\ evaluate(heap, interpretEnv, exprOf(call), 0).isLeft)
            => lastResult'.isLeft /\ lastResult'.vals[1] \in {Num(10), Num(20)}]_vars

\* (type-is 1 "Number") has returned the host's true, which is neither #t nor
\* #f
C27_Witness ==
  /\ lastSource = <<"(type-is 1 \"Number\")">>
  /\ lastResult.isLeft
  /\ lastResult.vals = <<jsBoolean(TRUE)>>
  /\ ~isBool(lastResult.vals[1])
  /\ showValueType(lastResult.vals[1]) = "(unknown)"

\* ---------------------------------------------------------------- dict literals

\* a key that fails: the list xs holds no tenth element
FailingKey == "(get xs 9)"

\* dict literals whose first / second entry has the failing key; the values
\* of the entries push onto xs or bind y
FirstKeyFails == "{(" \o FailingKey \o " (push xs 1)) (2 (push xs 2))}"
FirstKeyFailsLet == "{(" \o FailingKey \o " (let y 1)) (2 (let y 2))}"
SecondKeyFails ==
  "{(1 (push xs 1)) (" \o FailingKey \o " (push xs 2)) (3 (push xs 3))}"

DictSources ==
  {"(let xs [])", "(let xs [0])", FirstKeyFails, FirstKeyFailsLet, SecondKeyFails,
   "{(1 (push xs 1)) (2 (push xs 2))}", "(let d {(1 (let y 1))})", "(len xs)", "y"}

NextDict == \E text \in DictSources : interpret(<<text>>)

SpecDict == Init /\ [][NextDict]_vars

\* the elements of the list the variable id of interpretEnv holds
valuesOf(h, id) == h.lists[lookup(h, interpretEnv, id).n]

\* C28: when the key of an entry of a dict literal fails, the evaluation
\* fails with that failure, and neither the value of that entry nor any later
\* entry is evaluated: xs gets no element from them and y is not bound by them.
C28_KeyFailureAborts ==
  [][(calls' = calls + 1 /\ lookup(heap, interpretEnv, "xs").t = "List")
       => /\ lastSource' \in {<<FirstKeyFails>>, <<FirstKeyFailsLet>>}
               => /\ ~lastResult'.isLeft
                  /\ lastResult'.msg
                       = evaluate(heap, interpretEnv, exprOf(FailingKey), 0).msg
                  /\ valuesOf(heap', "xs") = valuesOf(heap, "xs")
                  /\ lookup(heap', interpretEnv, "y") = lookup(heap, interpretEnv, "y")
          /\ lastSource' = <<SecondKeyFails>>
               => /\ ~lastResult'.isLeft
                  /\ lastResult'.msg
                       = evaluate(heap', interpretEnv, exprOf(FailingKey), 0).msg
                  /\ valuesOf(heap', "xs") = Append(valuesOf(heap, "xs"), Num(1))]_vars

\* the second key has failed on the list [0]: the first value has pushed 1,
\* the second and third values have pushed nothing
C28_Witness ==
  /\ lastSource = <<SecondKeyFails>>
  /\ ~lastResult.isLeft
  /\ lastResult.msg = "index out of range: 9 of [0 1]"
  /\ lookup(heap, interpretEnv, "xs").t = "List"
  /\ valuesOf(heap, "xs") = <<Num(0), Num(1)>>

\* ---------------------------------------------------------------- builtin bindings

BuiltinBindingSources ==
  {<<"(let add 5)">>, <<"add">>, <<"(let #t 0)">>, <<"(add 1 2)">>,
   <<"(let (sub a b) a)">>, <<"((\\ (add) add) 1)">>,
   <<"(let (f) (let mul 1))", "(f)">>, <<"(let (g add) (let sub add))", "(g 1)">>,
   <<"(let x 1)">>, <<"(#t 1 2)">>}

NextBuiltinBinding ==
  \E source \in BuiltinBindingSources : interpret(source) \/ execute(source)

SpecBuiltinBinding == Init /\ [][NextBuiltinBinding]_vars

RECURSIVE letIds(_)
\* the identifiers an expression binds with let, at any depth
letIds(e) ==
  CASE e.k = "ExprLetVar" -> {e.id} \cup letIds(e.expr)
    [] e.k = "ExprLetFunc" -> {e.id} \cup letIds(e.body)
    [] e.k = "ExprLambda" -> letIds(e.body)
    [] e.k = "ExprDo" -> UNION {letIds(e.exprs[i]) : i \in DOMAIN e.exprs}
    [] e.k \in {"SExpr", "ListExpr"} -> UNION {letIds(e.items[i]) : i \in DOMAIN e.items}
    [] e.k = "DictExpr" ->
         UNION {letIds(e.entries[i].key) \cup letIds(e.entries[i].value) :
                  i \in DOMAIN e.entries}
    [] OTHER -> {}

\* the identifiers the forms of a source bind with let
letIdsOfSource(source) ==
  UNION {letIds(exprOf(source[i])) : i \in DOMAIN source}

Identifiers == KEYWORD \cup ObjectPrototype \cup {"x", "add", "f", "lets"}

\* the identifier as an atom, as the head of an S-expression, and as the head
\* of an S-expression the source ends in
HeadOf(id) == "(" \o id \o " 1)"
OpenHeadOf(id) == "(" \o id

KeywordSources ==
  Identifiers \cup {HeadOf(id) : id \in Identifiers \ KEYWORD}
    \cup {OpenHeadOf("constructor"), OpenHeadOf("toString"), OpenHeadOf("x")}
    \cup {LetVarOf("constructor"), LetVarOf("x"), LetFuncOf("toString"),
          LetParamOf("valueOf"), "(let (f a) a)", "(do 1)", "(\\ (x) x)"}

NextKeyword == \E text \in KeywordSources : interpret(<<text>>)

SpecKeyword == Init /\ [][NextKeyword]_vars

\* C30: only let, \, do and macro are reserved: every other identifier read
\* as an atom gives a Var node, and read as the head of an S-expression gives
\* an SExpr whose caller is that Var (no macro is registered here).
C30_OnlyFourReserved ==
  [][calls' = calls + 1 =>
       \A id \in Identifiers \ KEYWORD :
         /\ lastSource' = <<id>> =>
              /\ parse(macroReg, id).isLeft
              /\ parse(macroReg, id).exprs = <<Var(id)>>
         /\ lastSource' = <<HeadOf(id)>> =>
              /\ parse(macroReg, HeadOf(id)).isLeft
              /\ parse(macroReg, HeadOf(id)).exprs
                   = <<SExpr(<<Var(id), NumberExpr(1)>>)>>]_vars

\* the atom constructor has been read: the reader has rejected it as a keyword
C30_Witness ==
  /\ lastSource = <<"constructor">>
  /\ ~lastResult.isLeft
  /\ lastResult.msg = "syntax error: unexpected keyword constructor"
  /\ parse(macroReg, "x").exprs = <<Var("x")>>

====
